---- MODULE Spec2Model ----
(***************************************************************************)
(* Model of the COVARIANT language pipeline (jijinbei/covariant):          *)
(* AST -> IR lowering (covariant-ir) -> tree-walking evaluator             *)
(* (covariant-eval).  The recursive evaluator is modelled as a small-step  *)
(* machine whose stack frames are the activations of eval_node and of the  *)
(* helpers that call it.                                                   *)
(***************************************************************************)
EXTENDS Integers, Sequences, FiniteSets, TLC

\* ------------------------------------------------------------------------
\* Option<T>: None is the empty sequence, Some(x) a one-element sequence.
\* ------------------------------------------------------------------------
None == <<>>

Some(x) == <<x>>

IsSome(o) == Len(o) = 1

Unwrap(o) == o[1]

Last(s) == s[Len(s)]

Front(s) == SubSeq(s, 1, Len(s) - 1)

\* Operator arguments are evaluated on demand.  Forced(x) is TRUE and makes
\* the value of x known first, so that values are built in the order of the
\* code's calls: recursive operators that thread a growing value start
\* with Forced of it.
Forced(x) == x = x

\* ------------------------------------------------------------------------
\* f64 values.  A finite float is an exact fraction <<num, den>> with
\* den > 0 in lowest terms; den = 0 encodes the IEEE specials:
\* <<1,0>> = +inf, <<-1,0>> = -inf, <<0,0>> = NaN.
\* ------------------------------------------------------------------------
Abs(n) == IF n < 0 THEN -n ELSE n

Sign(n) == IF n < 0 THEN -1 ELSE IF n > 0 THEN 1 ELSE 0

RECURSIVE Gcd(_, _)
Gcd(a, b) == IF b = 0 THEN a ELSE Gcd(b, a % b)

FNorm(n, d) ==
    IF d = 0 THEN <<Sign(n), 0>>
    ELSE LET g == Gcd(Abs(n), Abs(d))
             s == IF d < 0 THEN -1 ELSE 1
         IN  <<(s * n) \div g, (s * d) \div g>>

\* ------------------------------------------------------------------------
\* i64 values (Value::Int, IntLit).  A 64-bit integer does not fit the
\* checker's integers, so it is held exactly, as a sign s in {-1, 0, 1} and
\* the decimal digits d of its magnitude, least significant first, without
\* leading zeros; zero is [s |-> 0, d |-> <<>>].
\* ------------------------------------------------------------------------
IntCmp(x, y) == IF x < y THEN -1 ELSE IF x > y THEN 1 ELSE 0

RECURSIVE NatDigits(_)
NatDigits(n) == IF n = 0 THEN <<>> ELSE <<n % 10>> \o NatDigits(n \div 10)

\* The i64 with the value of the (small) integer n.
Big(n) == [s |-> Sign(n), d |-> NatDigits(Abs(n))]

RECURSIVE Trim(_)
Trim(d) ==
    IF d = <<>> THEN <<>>
    ELSE IF d[Len(d)] = 0 THEN Trim(Front(d)) ELSE d

Digit(a, i) == IF i <= Len(a) THEN a[i] ELSE 0

RECURSIVE MagCmpFrom(_, _, _)
MagCmpFrom(a, b, i) ==
    IF i = 0 THEN 0
    ELSE IF a[i] # b[i] THEN IntCmp(a[i], b[i])
    ELSE MagCmpFrom(a, b, i - 1)

MagCmp(a, b) ==
    IF Len(a) # Len(b) THEN IntCmp(Len(a), Len(b))
    ELSE MagCmpFrom(a, b, Len(a))

RECURSIVE MagAddFrom(_, _, _, _)
MagAddFrom(a, b, i, carry) ==
    IF i > Len(a) /\ i > Len(b)
    THEN (IF carry = 0 THEN <<>> ELSE <<carry>>)
    ELSE LET t == Digit(a, i) + Digit(b, i) + carry
         IN  <<t % 10>> \o MagAddFrom(a, b, i + 1, t \div 10)

MagAdd(a, b) == MagAddFrom(a, b, 1, 0)

\* a - b for a >= b.
RECURSIVE MagSubFrom(_, _, _, _)
MagSubFrom(a, b, i, borrow) ==
    IF i > Len(a) THEN <<>>
    ELSE LET t == a[i] - Digit(b, i) - borrow
         IN  IF t < 0 THEN <<t + 10>> \o MagSubFrom(a, b, i + 1, 1)
             ELSE <<t>> \o MagSubFrom(a, b, i + 1, 0)

MagSub(a, b) == Trim(MagSubFrom(a, b, 1, 0))

RECURSIVE MagMulDigitFrom(_, _, _, _)
MagMulDigitFrom(a, k, i, carry) ==
    IF i > Len(a) THEN (IF carry = 0 THEN <<>> ELSE <<carry>>)
    ELSE LET t == a[i] * k + carry
         IN  <<t % 10>> \o MagMulDigitFrom(a, k, i + 1, t \div 10)

MagMulDigit(a, k) == Trim(MagMulDigitFrom(a, k, 1, 0))

MagShift(a) == IF a = <<>> THEN <<>> ELSE <<0>> \o a

RECURSIVE MagMul(_, _)
MagMul(a, b) ==
    IF b = <<>> THEN <<>>
    ELSE LET rest == MagMul(a, Tail(b))
         IN  IF Forced(rest)
             THEN MagAdd(MagMulDigit(a, b[1]), MagShift(rest))
             ELSE <<>>

\* How often b goes into r (at most 9 times), and what is left.
RECURSIVE MagCount(_, _, _)
MagCount(r, b, k) ==
    IF Forced(r) /\ MagCmp(r, b) < 0 THEN [k |-> k, r |-> r]
    ELSE MagCount(MagSub(r, b), b, k + 1)

\* Long division of a by b # 0, from the most significant digit of a.
RECURSIVE MagDivFrom(_, _, _, _, _)
MagDivFrom(a, b, i, q, r) ==
    IF Forced(q) /\ Forced(r) /\ i = 0 THEN [q |-> Trim(q), r |-> r]
    ELSE LET c == MagCount(Trim(<<a[i]>> \o r), b, 0)
         IN  MagDivFrom(a, b, i - 1, <<c.k>> \o q, c.r)

MagDivMod(a, b) == MagDivFrom(a, b, Len(a), <<>>, <<>>)

BigOf(s, d) == IF d = <<>> THEN [s |-> 0, d |-> <<>>] ELSE [s |-> s, d |-> d]

BigNeg(x) == [s |-> 0 - x.s, d |-> x.d]

BigAdd(x, y) ==
    IF x.s = 0 THEN y
    ELSE IF y.s = 0 THEN x
    ELSE IF x.s = y.s THEN BigOf(x.s, MagAdd(x.d, y.d))
    ELSE IF MagCmp(x.d, y.d) >= 0 THEN BigOf(x.s, MagSub(x.d, y.d))
    ELSE BigOf(y.s, MagSub(y.d, x.d))

BigSub(x, y) == BigAdd(x, BigNeg(y))

BigMul(x, y) == BigOf(x.s * y.s, MagMul(x.d, y.d))

\* The quotient rounded toward zero, as i64 `/` rounds.
BigDiv(x, y) == BigOf(x.s * y.s, MagDivMod(x.d, y.d).q)

BigCmp(x, y) ==
    IF x.s # y.s THEN IntCmp(x.s, y.s)
    ELSE IF x.s >= 0 THEN MagCmp(x.d, y.d)
    ELSE MagCmp(y.d, x.d)

RECURSIVE MagToNat(_)
MagToNat(d) == IF d = <<>> THEN 0 ELSE d[1] + 10 * MagToNat(Tail(d))

\* The value as an integer of the checker; for values of at most 9 digits.
BigToInt(x) == x.s * MagToNat(x.d)

\* i64::MAX = 9223372036854775807
I64_MAX ==
    [s |-> 1, d |-> <<7, 0, 8, 5, 7, 7, 4, 5, 8, 6, 3, 0, 2, 7, 3, 3, 2, 2, 9>>]

\* i64::MIN = -9223372036854775808
I64_MIN == BigSub(BigNeg(I64_MAX), Big(1))

\* 2^64
TwoTo64 == BigMul(Big(2), BigAdd(I64_MAX, Big(1)))

InI64(x) == BigCmp(x, I64_MIN) >= 0 /\ BigCmp(x, I64_MAX) <= 0

\* Two's complement wrap-around: the i64 congruent to x modulo 2^64.
I64Wrap(x) ==
    LET m == BigOf(1, MagDivMod(x.d, TwoTo64.d).r)
        r == IF x.s >= 0 \/ m.s = 0 THEN m ELSE BigSub(TwoTo64, m)
    IN  IF BigCmp(r, I64_MAX) > 0 THEN BigSub(r, TwoTo64) ELSE r

FInf == <<1, 0>>

FNegInf == <<-1, 0>>

FNaN == <<0, 0>>

FZero == <<0, 1>>

FIsNaN(a) == a = FNaN

FIsFinite(a) == a[2] # 0

FIsZero(a) == a[2] # 0 /\ a[1] = 0

IntToF(n) == <<BigToInt(n), 1>>

FAdd(a, b) ==
    IF FIsNaN(a) \/ FIsNaN(b) THEN FNaN
    ELSE IF ~FIsFinite(a) /\ ~FIsFinite(b) THEN (IF a = b THEN a ELSE FNaN)
    ELSE IF ~FIsFinite(a) THEN a
    ELSE IF ~FIsFinite(b) THEN b
    ELSE FNorm(a[1] * b[2] + b[1] * a[2], a[2] * b[2])

FNeg(a) == <<-a[1], a[2]>>

FSub(a, b) == FAdd(a, FNeg(b))

FMul(a, b) ==
    IF FIsNaN(a) \/ FIsNaN(b) THEN FNaN
    ELSE IF ~FIsFinite(a) \/ ~FIsFinite(b)
         THEN <<Sign(a[1]) * Sign(b[1]), 0>>
    ELSE FNorm(a[1] * b[1], a[2] * b[2])

FDiv(a, b) ==
    IF FIsNaN(a) \/ FIsNaN(b) THEN FNaN
    ELSE IF ~FIsFinite(a) /\ ~FIsFinite(b) THEN FNaN
    ELSE IF ~FIsFinite(a) THEN <<a[1] * (IF b[1] < 0 THEN -1 ELSE 1), 0>>
    ELSE IF ~FIsFinite(b) THEN FZero
    ELSE IF b[1] = 0 THEN <<Sign(a[1]), 0>>
    ELSE FNorm(a[1] * b[2], a[2] * b[1])

\* f64 `==`: NaN is unequal to everything, itself included.
FEq(a, b) == ~FIsNaN(a) /\ ~FIsNaN(b) /\ a = b

FLt(a, b) ==
    /\ ~FIsNaN(a) /\ ~FIsNaN(b)
    /\ a # b
    /\ IF ~FIsFinite(a) THEN a = FNegInf
       ELSE IF ~FIsFinite(b) THEN b = FInf
       ELSE a[1] * b[2] < b[1] * a[2]

\* partial_cmp(..).map(|o| o as i32).unwrap_or(0)
FCmp(a, b) == IF FLt(a, b) THEN -1 ELSE IF FLt(b, a) THEN 1 ELSE 0

\* std::f64::consts::PI, as the fraction 355/113.
PI == <<355, 113>>

length_to_mm(value, unit) ==
    CASE unit = "Mm" -> value
      [] unit = "Cm" -> FMul(value, <<10, 1>>)
      [] unit = "M"  -> FMul(value, <<1000, 1>>)
      [] unit = "In" -> FMul(value, <<127, 5>>)

angle_to_rad(value, unit) ==
    CASE unit = "Deg" -> FDiv(FMul(value, PI), <<180, 1>>)
      [] unit = "Rad" -> value

\* ------------------------------------------------------------------------
\* Runtime values (value.rs).  Every value is a record with a tag field t.
\* ------------------------------------------------------------------------
VInt(n) == [t |-> "Int", n |-> n]

VNum(n) == VInt(Big(n))

VFloat(f) == [t |-> "Float", f |-> f]

VLength(f) == [t |-> "Length", f |-> f]

VAngle(f) == [t |-> "Angle", f |-> f]

VBool(b) == [t |-> "Bool", b |-> b]

VString(s) == [t |-> "String", s |-> s]

VVec3(x, y, z) == [t |-> "Vec3", v |-> <<x, y, z>>]

VSolid(h) == [t |-> "Solid", h |-> h]

VList(items) == [t |-> "List", items |-> items]

VFunction(params, body, closure_env) ==
    [t |-> "Function", params |-> params, body |-> body,
     closure_env |-> closure_env]

VBuiltinFn(name) == [t |-> "BuiltinFn", name |-> name]

VData(type_name, fields) ==
    [t |-> "Data", type_name |-> type_name, fields |-> fields]

VEnumVariant(type_name, variant) ==
    [t |-> "EnumVariant", type_name |-> type_name, variant |-> variant]

VUnit == [t |-> "Unit"]

type_name(v) ==
    IF v.t \in {"Data", "EnumVariant"} THEN v.type_name ELSE v.t

\* Value::as_f64
as_f64(v) ==
    CASE v.t = "Int" -> Some(IntToF(v.n))
      [] v.t \in {"Float", "Length", "Angle"} -> Some(v.f)
      [] OTHER -> None

\* ------------------------------------------------------------------------
\* EvalResult (error.rs).  A span is the id of the IR node it belongs to.
\* ------------------------------------------------------------------------
Ok(v) == [ok |-> TRUE, v |-> v]

Err(kind, msg, span) == [ok |-> FALSE, kind |-> kind, msg |-> msg, span |-> span]

\* ------------------------------------------------------------------------
\* Env (env.rs): a stack of scopes, each a map from names to values.
\* ------------------------------------------------------------------------
EmptyScope == [n \in {} |-> VUnit]

Env_new == [scopes |-> <<EmptyScope>>]

push_scope(env) == [scopes |-> Append(env.scopes, EmptyScope)]

\* pop_scope asserts scopes.len() > 1; callers test CanPop first.
CanPop(env) == Len(env.scopes) > 1

pop_scope(env) == [scopes |-> Front(env.scopes)]

define(env, name, value) ==
    LET top == Last(env.scopes)
        new == [n \in (DOMAIN top) \cup {name} |->
                   IF n = name THEN value ELSE top[n]]
    IN  [scopes |-> Append(Front(env.scopes), new)]

RECURSIVE lookup_from(_, _, _)
lookup_from(scopes, i, name) ==
    IF i = 0 THEN None
    ELSE IF name \in DOMAIN scopes[i] THEN Some(scopes[i][name])
    ELSE lookup_from(scopes, i - 1, name)

\* lookup that searches the innermost scope only.
lookup_innermost_only(env, name) ==
    IF name \in DOMAIN Last(env.scopes) THEN Some(Last(env.scopes)[name])
    ELSE None

lookup(env, name) == lookup_from(env.scopes, Len(env.scopes), name)

\* ------------------------------------------------------------------------
\* AST (covariant-syntax/src/ast.rs).  Expressions carry a kind field e,
\* statements a kind field s, patterns a kind field p.
\* ------------------------------------------------------------------------
IntLit(n) == [e |-> "IntLit", n |-> n]

\* The literal of a small number.
Num(n) == IntLit(Big(n))

FloatLit(f) == [e |-> "FloatLit", f |-> f]

LengthLit(f, u) == [e |-> "LengthLit", f |-> f, unit |-> u]

AngleLit(f, u) == [e |-> "AngleLit", f |-> f, unit |-> u]

BoolLit(b) == [e |-> "BoolLit", b |-> b]

StringLit(str) == [e |-> "StringLit", str |-> str]

Ident(name) == [e |-> "Ident", name |-> name]

BinOp(lhs, op, rhs) == [e |-> "BinOp", lhs |-> lhs, op |-> op, rhs |-> rhs]

UnaryOp(op, operand) == [e |-> "UnaryOp", op |-> op, operand |-> operand]

FnCall(func, args) == [e |-> "FnCall", func |-> func, args |-> args]

FieldAccess(object, field) ==
    [e |-> "FieldAccess", object |-> object, field |-> field]

Lambda(params, body) == [e |-> "Lambda", params |-> params, body |-> body]

List(elems) == [e |-> "List", elems |-> elems]

If(cond, then_branch, else_branch) ==
    [e |-> "If", cond |-> cond, then_branch |-> then_branch,
     else_branch |-> else_branch]

Match(subject, arms) == [e |-> "Match", subject |-> subject, arms |-> arms]

DataConstructor(name, fields) ==
    [e |-> "DataConstructor", name |-> name, fields |-> fields]

WithUpdate(base, updates) ==
    [e |-> "WithUpdate", base |-> base, updates |-> updates]

Block(stmts, tail) == [e |-> "Block", stmts |-> stmts, tail |-> tail]

Grouped(inner) == [e |-> "Grouped", inner |-> inner]

\* Arg { name: Option<String>, value }
Arg(name, value) == [name |-> name, value |-> value]

Pos(value) == Arg(None, value)

Named(name, value) == Arg(Some(name), value)

\* Param { name, default: Option<Expr> }
Param(name, default) == [name |-> name, default |-> default]

FieldInit(name, value) == [name |-> name, value |-> value]

MatchArm(pattern, body) == [pattern |-> pattern, body |-> body]

PIdent(name) == [p |-> "Ident", name |-> name]

PWildcard == [p |-> "Wildcard"]

PLiteral(lit) == [p |-> "Literal", lit |-> lit]

Let(name, value) == [s |-> "Let", name |-> name, value |-> value]

FnDef(name, params, body) ==
    [s |-> "FnDef", name |-> name, params |-> params, body |-> body]

DataDef(name, fields) == [s |-> "DataDef", name |-> name, fields |-> fields]

EnumDef(name, variants) ==
    [s |-> "EnumDef", name |-> name, variants |-> variants]

ExprStmt(expr) == [s |-> "Expr", expr |-> expr]

\* ------------------------------------------------------------------------
\* Lexer (covariant-syntax/src/lexer.rs, token.rs).  The source is a
\* sequence of one-character strings; byte offset p denotes source[p + 1].
\* A token is its kind and its span; its text is the slice of the source.
\* ------------------------------------------------------------------------
AsciiDigits == {"0", "1", "2", "3", "4", "5", "6", "7", "8", "9"}

AsciiLower ==
    {"a", "b", "c", "d", "e", "f", "g", "h", "i", "j", "k", "l", "m", "n",
     "o", "p", "q", "r", "s", "t", "u", "v", "w", "x", "y", "z"}

AsciiUpper ==
    {"A", "B", "C", "D", "E", "F", "G", "H", "I", "J", "K", "L", "M", "N",
     "O", "P", "Q", "R", "S", "T", "U", "V", "W", "X", "Y", "Z"}

is_ascii_digit(c) == c \in AsciiDigits

is_ascii_alphabetic(c) == c \in AsciiLower \cup AsciiUpper

is_ascii_alphanumeric(c) == is_ascii_alphabetic(c) \/ is_ascii_digit(c)

\* The string spelled by a sequence of characters.
RECURSIVE Str(_)
Str(cs) == IF cs = <<>> THEN "" ELSE Head(cs) \o Str(Tail(cs))

\* &source[start..end]
slice(source, start, end) == SubSeq(source, start + 1, end)

\* The bytes of the two-byte character U+00E9: the leading byte 0xC3 and
\* the continuation byte 0xA9.
Utf8Lead == "C3"

Utf8Continuation == "A9"

\* str::is_char_boundary: the start, the end, or a byte that is not a
\* continuation byte.
is_char_boundary(source, index) ==
    \/ index = 0
    \/ index = Len(source)
    \/ index < Len(source) /\ source[index + 1] # Utf8Continuation

\* The slice &source[token.start..token.end] does not panic.
on_char_boundaries(source, token) ==
    /\ is_char_boundary(source, token.start)
    /\ is_char_boundary(source, token.end)

\* Token::new(kind, Span::new(start, end))
Token(kind, start, end) == [kind |-> kind, start |-> start, end |-> end]

\* Token::text
Token_text(source, token) == Str(slice(source, token.start, token.end))

SyntaxError(message, start, end, kind) ==
    [message |-> message, start |-> start, end |-> end, kind |-> kind]

\* SyntaxKind::keyword
SyntaxKind_keyword(s) ==
    CASE s = "let" -> Some("Let")
      [] s = "data" -> Some("Data")
      [] s = "fn" -> Some("Fn")
      [] s = "enum" -> Some("Enum")
      [] s = "if" -> Some("If")
      [] s = "else" -> Some("Else")
      [] s = "match" -> Some("Match")
      [] s = "with" -> Some("With")
      [] s = "true" -> Some("True")
      [] s = "false" -> Some("False")
      [] OTHER -> None

\* Lexer::new
Lexer_new == [pos |-> 0, tokens |-> <<>>, errors |-> <<>>]

Lexer_peek(source, pos) ==
    IF pos < Len(source) THEN Some(source[pos + 1]) ELSE None

Lexer_peek_next(source, pos) == Lexer_peek(source, pos + 1)

Lexer_at_end(source, pos) == pos >= Len(source)

\* The next byte is one of cs.
PeekIn(source, pos, cs) ==
    pos < Len(source) /\ source[pos + 1] \in cs

Lexer_advance(lx) == [lx EXCEPT !.pos = @ + 1]

\* Lexer::emit
Lexer_emit(lx, kind, start) ==
    [lx EXCEPT !.tokens = Append(@, Token(kind, start, lx.pos))]

\* Lexer::error: one error and one Error token
Lexer_error(lx, message, start, kind) ==
    [lx EXCEPT !.errors = Append(@, SyntaxError(message, start, lx.pos, kind)),
               !.tokens = Append(@, Token("Error", start, lx.pos))]

\* `while self.peek().is_some_and(|c| c in cs) { self.advance(); }`
RECURSIVE advance_while(_, _, _)
advance_while(source, pos, cs) ==
    IF PeekIn(source, pos, cs)
    THEN advance_while(source, pos + 1, cs)
    ELSE pos

skip_whitespace(source, pos) == advance_while(source, pos, {" ", "\t", "\r"})

\* The second '/' is consumed, then everything up to the newline.
RECURSIVE until_newline(_, _)
until_newline(source, pos) ==
    IF pos < Len(source) /\ source[pos + 1] # "\n"
    THEN until_newline(source, pos + 1)
    ELSE pos

skip_line_comment(source, lx) ==
    [lx EXCEPT !.pos = until_newline(source, lx.pos + 1)]

\* The loop of skip_block_comment.
RECURSIVE block_comment_loop(_, _, _)
block_comment_loop(source, pos, depth) ==
    IF Lexer_at_end(source, pos) \/ depth = 0
    THEN [pos |-> pos, depth |-> depth]
    ELSE IF Lexer_peek(source, pos) = Some("/")
            /\ Lexer_peek_next(source, pos) = Some("*")
    THEN block_comment_loop(source, pos + 2, depth + 1)
    ELSE IF Lexer_peek(source, pos) = Some("*")
            /\ Lexer_peek_next(source, pos) = Some("/")
    THEN block_comment_loop(source, pos + 2, depth - 1)
    ELSE block_comment_loop(source, pos + 1, depth)

skip_block_comment(source, lx, start) ==
    LET r == block_comment_loop(source, lx.pos + 1, 1)
        l1 == [lx EXCEPT !.pos = r.pos]
    IN  IF r.depth > 0
        THEN Lexer_error(l1, "unterminated block comment", start,
                   "UnterminatedBlockComment")
        ELSE l1

emit_number(lx, is_float, start) ==
    IF is_float THEN Lexer_emit(lx, "FloatLit", start)
    ELSE Lexer_emit(lx, "IntLit", start)

\* scan_number with the position left after the suffix when it is no unit.
scan_number_without_rewind(source, lx, start) ==
    LET p1 == advance_while(source, lx.pos, AsciiDigits)
        is_float == /\ Lexer_peek(source, p1) = Some(".")
                    /\ PeekIn(source, p1 + 1, AsciiDigits)
        p2 == IF is_float
              THEN advance_while(source, p1 + 1, AsciiDigits)
              ELSE p1
        p3 == advance_while(source, p2, AsciiLower \cup AsciiUpper)
        suffix == Str(slice(source, p2, p3))
    IN  IF PeekIn(source, p2, AsciiLower \cup AsciiUpper)
        THEN CASE suffix \in {"mm", "cm", "m", "in"} ->
                      Lexer_emit([lx EXCEPT !.pos = p3], "LengthLit", start)
               [] suffix \in {"deg", "rad"} ->
                      Lexer_emit([lx EXCEPT !.pos = p3], "AngleLit", start)
               [] OTHER ->
                      emit_number([lx EXCEPT !.pos = p3], is_float, start)
        ELSE emit_number([lx EXCEPT !.pos = p2], is_float, start)

\* scan_number rewinding to the start of the number when the suffix is no
\* unit.
scan_number_rewinding_to_start(source, lx, start) ==
    LET p1 == advance_while(source, lx.pos, AsciiDigits)
        is_float == /\ Lexer_peek(source, p1) = Some(".")
                    /\ PeekIn(source, p1 + 1, AsciiDigits)
        p2 == IF is_float
              THEN advance_while(source, p1 + 1, AsciiDigits)
              ELSE p1
        p3 == advance_while(source, p2, AsciiLower \cup AsciiUpper)
        suffix == Str(slice(source, p2, p3))
    IN  IF PeekIn(source, p2, AsciiLower \cup AsciiUpper)
        THEN CASE suffix \in {"mm", "cm", "m", "in"} ->
                      Lexer_emit([lx EXCEPT !.pos = p3], "LengthLit", start)
               [] suffix \in {"deg", "rad"} ->
                      Lexer_emit([lx EXCEPT !.pos = p3], "AngleLit", start)
               [] OTHER ->
                      emit_number([lx EXCEPT !.pos = start], is_float, start)
        ELSE emit_number([lx EXCEPT !.pos = p2], is_float, start)

\* Lexer::scan_number; the first digit is consumed.
scan_number(source, lx, start) ==
    LET p1 == advance_while(source, lx.pos, AsciiDigits)
        is_float == /\ Lexer_peek(source, p1) = Some(".")
                    /\ PeekIn(source, p1 + 1, AsciiDigits)
        p2 == IF is_float
              THEN advance_while(source, p1 + 1, AsciiDigits)
              ELSE p1
        suffix_start == p2
        p3 == advance_while(source, p2, AsciiLower \cup AsciiUpper)
        suffix == Str(slice(source, suffix_start, p3))
    IN  IF PeekIn(source, p2, AsciiLower \cup AsciiUpper)
        THEN CASE suffix \in {"mm", "cm", "m", "in"} ->
                      Lexer_emit([lx EXCEPT !.pos = p3], "LengthLit", start)
               [] suffix \in {"deg", "rad"} ->
                      Lexer_emit([lx EXCEPT !.pos = p3], "AngleLit", start)
               [] OTHER ->
                      emit_number([lx EXCEPT !.pos = suffix_start],
                                  is_float, start)
        ELSE emit_number([lx EXCEPT !.pos = p2], is_float, start)

\* The loop of scan_string: the position after the closing quote, or the
\* end of the source.
RECURSIVE string_loop(_, _)
string_loop(source, pos) ==
    IF Lexer_at_end(source, pos) THEN [pos |-> pos, closed |-> FALSE]
    ELSE IF source[pos + 1] = "\"" THEN [pos |-> pos + 1, closed |-> TRUE]
    ELSE IF source[pos + 1] = "\\"
    THEN string_loop(source,
                     IF Lexer_at_end(source, pos + 1) THEN pos + 1
                     ELSE pos + 2)
    ELSE string_loop(source, pos + 1)

scan_string(source, lx, start) ==
    LET r == string_loop(source, lx.pos)
        l1 == [lx EXCEPT !.pos = r.pos]
    IN  IF r.closed THEN Lexer_emit(l1, "StringLit", start)
        ELSE Lexer_error(l1, "unterminated string literal", start,
                   "UnterminatedString")

scan_ident_or_keyword(source, lx, start) ==
    LET p == advance_while(source, lx.pos,
                           AsciiLower \cup AsciiUpper \cup AsciiDigits
                               \cup {"_"})
        kw == SyntaxKind_keyword(Str(slice(source, start, p)))
    IN  Lexer_emit([lx EXCEPT !.pos = p],
             IF IsSome(kw) THEN Unwrap(kw) ELSE "Ident", start)

\* One of two tokens, by the byte that follows.
two_char(source, lx, start, next, long, short) ==
    IF Lexer_peek(source, lx.pos) = Some(next)
    THEN Lexer_emit(Lexer_advance(lx), long, start)
    ELSE Lexer_emit(lx, short, start)

\* Lexer::scan_token
scan_token(source, lx0) ==
    LET start == skip_whitespace(source, lx0.pos)
        lx == [lx0 EXCEPT !.pos = start + 1]
        c == source[start + 1]
        nx == Lexer_peek(source, start + 1)
    IN  IF Lexer_at_end(source, start) THEN [lx0 EXCEPT !.pos = start]
        ELSE CASE c = "(" -> Lexer_emit(lx, "LParen", start)
               [] c = ")" -> Lexer_emit(lx, "RParen", start)
               [] c = "{" -> Lexer_emit(lx, "LBrace", start)
               [] c = "}" -> Lexer_emit(lx, "RBrace", start)
               [] c = "[" -> Lexer_emit(lx, "LBracket", start)
               [] c = "]" -> Lexer_emit(lx, "RBracket", start)
               [] c = "+" -> Lexer_emit(lx, "Plus", start)
               [] c = "*" -> Lexer_emit(lx, "Star", start)
               [] c = "." -> Lexer_emit(lx, "Dot", start)
               [] c = ":" -> Lexer_emit(lx, "Colon", start)
               [] c = "," -> Lexer_emit(lx, "Comma", start)
               [] c = ";" -> Lexer_emit(lx, "Semicolon", start)
               [] c = "\n" -> Lexer_emit(lx, "Newline", start)
               [] c = "-" -> two_char(source, lx, start, ">", "Arrow", "Minus")
               [] c = "=" ->
                      IF nx = Some("=")
                      THEN Lexer_emit(Lexer_advance(lx), "EqEq", start)
                      ELSE two_char(source, lx, start, ">", "FatArrow", "Eq")
               [] c = "!" -> two_char(source, lx, start, "=", "BangEq", "Bang")
               [] c = "<" -> two_char(source, lx, start, "=", "LtEq", "Lt")
               [] c = ">" -> two_char(source, lx, start, "=", "GtEq", "Gt")
               [] c = "&" ->
                      IF nx = Some("&")
                      THEN Lexer_emit(Lexer_advance(lx), "AmpAmp", start)
                      ELSE Lexer_error(lx, "expected '&&'", start, "UnexpectedChar")
               [] c = "|" ->
                      IF nx = Some(">")
                      THEN Lexer_emit(Lexer_advance(lx), "PipeGt", start)
                      ELSE two_char(source, lx, start, "|", "PipePipe", "Pipe")
               [] c = "/" ->
                      IF nx = Some("/") THEN skip_line_comment(source, lx)
                      ELSE IF nx = Some("*")
                      THEN skip_block_comment(source, lx, start)
                      ELSE Lexer_emit(lx, "Slash", start)
               [] c = "\"" -> scan_string(source, lx, start)
               [] is_ascii_digit(c) -> scan_number(source, lx, start)
               [] is_ascii_alphabetic(c) \/ c = "_" ->
                      scan_ident_or_keyword(source, lx, start)
               [] OTHER ->
                      Lexer_error(lx, "unexpected character '" \o c \o "'", start,
                            "UnexpectedChar")

\* `while !self.at_end() { self.scan_token(); }`
RECURSIVE scan_tokens(_, _)
scan_tokens(source, lx) ==
    IF Lexer_at_end(source, lx.pos) THEN lx
    ELSE LET l1 == scan_token(source, lx)
         IN  IF Forced(l1) THEN scan_tokens(source, l1) ELSE lx

\* Lexer::run with the Eof token left out after an error.
Lexer_run_eof_unless_error(source, lx) ==
    LET l1 == scan_tokens(source, lx)
    IN  IF l1.errors = <<>>
        THEN [l1 EXCEPT !.tokens = Append(@, Token("Eof", l1.pos, l1.pos))]
        ELSE l1

\* Lexer::run
Lexer_run(source, lx) ==
    LET l1 == scan_tokens(source, lx)
    IN  [l1 EXCEPT !.tokens = Append(@, Token("Eof", l1.pos, l1.pos))]

\* lexer::lex
lex(source) ==
    LET lx == Lexer_run(source, Lexer_new)
    IN  [tokens |-> lx.tokens, errors |-> lx.errors]

\* ------------------------------------------------------------------------
\* Parser (covariant-syntax/src/parser.rs).  The parser px is the source,
\* the tokens, the position and the errors; every parse operator returns
\* the parser it leaves as px and what it parsed as v.  Spans and type
\* annotations are parsed and not kept.
\* ------------------------------------------------------------------------
\* SyntaxKind::name
SyntaxKind_name(kind) ==
    CASE kind = "IntLit" -> "integer literal"
      [] kind = "FloatLit" -> "float literal"
      [] kind = "LengthLit" -> "length literal"
      [] kind = "AngleLit" -> "angle literal"
      [] kind = "StringLit" -> "string literal"
      [] kind = "True" -> "'true'"
      [] kind = "False" -> "'false'"
      [] kind = "Ident" -> "identifier"
      [] kind = "Let" -> "'let'"
      [] kind = "Data" -> "'data'"
      [] kind = "Fn" -> "'fn'"
      [] kind = "Enum" -> "'enum'"
      [] kind = "If" -> "'if'"
      [] kind = "Else" -> "'else'"
      [] kind = "Match" -> "'match'"
      [] kind = "With" -> "'with'"
      [] kind = "Plus" -> "'+'"
      [] kind = "Minus" -> "'-'"
      [] kind = "Star" -> "'*'"
      [] kind = "Slash" -> "'/'"
      [] kind = "Eq" -> "'='"
      [] kind = "EqEq" -> "'=='"
      [] kind = "BangEq" -> "'!='"
      [] kind = "Lt" -> "'<'"
      [] kind = "LtEq" -> "'<='"
      [] kind = "Gt" -> "'>'"
      [] kind = "GtEq" -> "'>='"
      [] kind = "AmpAmp" -> "'&&'"
      [] kind = "PipePipe" -> "'||'"
      [] kind = "Bang" -> "'!'"
      [] kind = "PipeGt" -> "'|>'"
      [] kind = "Pipe" -> "'|'"
      [] kind = "Dot" -> "'.'"
      [] kind = "Arrow" -> "'->'"
      [] kind = "Colon" -> "':'"
      [] kind = "Comma" -> "','"
      [] kind = "FatArrow" -> "'=>'"
      [] kind = "Semicolon" -> "';'"
      [] kind = "LParen" -> "'('"
      [] kind = "RParen" -> "')'"
      [] kind = "LBrace" -> "'{'"
      [] kind = "RBrace" -> "'}'"
      [] kind = "LBracket" -> "'['"
      [] kind = "RBracket" -> "']'"
      [] kind = "Newline" -> "newline"
      [] kind = "Eof" -> "end of file"
      [] kind = "Error" -> "error"

prefix_bp(kind) ==
    IF kind \in {"Minus", "Bang"} THEN Some(15) ELSE None

\* infix_bp with right binding power = left binding power.
infix_bp_right_assoc(kind) ==
    CASE kind = "PipeGt" -> Some(<<1, 1>>)
      [] kind = "PipePipe" -> Some(<<3, 3>>)
      [] kind = "AmpAmp" -> Some(<<5, 5>>)
      [] kind \in {"EqEq", "BangEq"} -> Some(<<7, 7>>)
      [] kind \in {"Lt", "LtEq", "Gt", "GtEq"} -> Some(<<9, 9>>)
      [] kind \in {"Plus", "Minus"} -> Some(<<11, 11>>)
      [] kind \in {"Star", "Slash"} -> Some(<<13, 13>>)
      [] OTHER -> None

\* (left_bp, right_bp)
infix_bp(kind) ==
    CASE kind = "PipeGt" -> Some(<<1, 2>>)
      [] kind = "PipePipe" -> Some(<<3, 4>>)
      [] kind = "AmpAmp" -> Some(<<5, 6>>)
      [] kind \in {"EqEq", "BangEq"} -> Some(<<7, 8>>)
      [] kind \in {"Lt", "LtEq", "Gt", "GtEq"} -> Some(<<9, 10>>)
      [] kind \in {"Plus", "Minus"} -> Some(<<11, 12>>)
      [] kind \in {"Star", "Slash"} -> Some(<<13, 14>>)
      [] OTHER -> None

\* The BinOpKind of an infix operator token.
BinOpKind(kind) ==
    CASE kind = "Plus" -> "Add"
      [] kind = "Minus" -> "Sub"
      [] kind = "Star" -> "Mul"
      [] kind = "Slash" -> "Div"
      [] kind = "EqEq" -> "Eq"
      [] kind = "BangEq" -> "Neq"
      [] kind = "Lt" -> "Lt"
      [] kind = "LtEq" -> "Leq"
      [] kind = "Gt" -> "Gt"
      [] kind = "GtEq" -> "Geq"
      [] kind = "AmpAmp" -> "And"
      [] kind = "PipePipe" -> "Or"
      [] kind = "PipeGt" -> "Pipe"

\* The UnaryOpKind of a prefix operator token.
UnaryOpKind(kind) ==
    CASE kind = "Minus" -> "Neg"
      [] kind = "Bang" -> "Not"

DigitValue(c) ==
    CASE c = "0" -> 0 [] c = "1" -> 1 [] c = "2" -> 2 [] c = "3" -> 3
      [] c = "4" -> 4 [] c = "5" -> 5 [] c = "6" -> 6 [] c = "7" -> 7
      [] c = "8" -> 8 [] c = "9" -> 9

\* The digits of a decimal numeral, least significant first.
RECURSIVE DigitsOf(_)
DigitsOf(cs) ==
    IF cs = <<>> THEN <<>>
    ELSE Append(DigitsOf(Tail(cs)), DigitValue(Head(cs)))

\* text.parse::<i64>().unwrap_or(0): a numeral above i64::MAX is 0.
parse_i64(cs) ==
    LET x == BigOf(1, Trim(DigitsOf(cs)))
    IN  IF InI64(x) THEN x ELSE Big(0)

\* The index of the first c in cs, or Len(cs) + 1.
RECURSIVE IndexOf(_, _, _)
IndexOf(cs, c, i) ==
    IF i > Len(cs) \/ cs[i] = c THEN i ELSE IndexOf(cs, c, i + 1)

RECURSIVE Pow10(_)
Pow10(k) == IF k = 0 THEN 1 ELSE 10 * Pow10(k - 1)

\* text.parse::<f64>().unwrap_or(0.0) of digits with an optional fraction
parse_f64(cs) ==
    LET dot == IndexOf(cs, ".", 1)
        int == SubSeq(cs, 1, dot - 1)
        frac == SubSeq(cs, dot + 1, Len(cs))
    IN  FNorm(MagToNat(Trim(DigitsOf(int \o frac))), Pow10(Len(frac)))

\* The index of the first alphabetic character of cs, or Len(cs) + 1.
RECURSIVE FirstAlphabetic(_, _)
FirstAlphabetic(cs, i) ==
    IF i > Len(cs) \/ is_ascii_alphabetic(cs[i]) THEN i
    ELSE FirstAlphabetic(cs, i + 1)

split_number_unit(cs) ==
    LET split_pos == FirstAlphabetic(cs, 1)
    IN  <<SubSeq(cs, 1, split_pos - 1), Str(SubSeq(cs, split_pos, Len(cs)))>>

RECURSIVE unescape(_)
unescape(cs) ==
    IF cs = <<>> THEN ""
    ELSE IF Head(cs) = "\\"
    THEN IF Len(cs) = 1 THEN "\\"
         ELSE LET c == cs[2]
                  rest == unescape(SubSeq(cs, 3, Len(cs)))
              IN  CASE c = "n" -> "\n" \o rest
                    [] c = "t" -> "\t" \o rest
                    [] c = "\\" -> "\\" \o rest
                    [] c = "\"" -> "\"" \o rest
                    [] OTHER -> "\\" \o c \o rest
    ELSE Head(cs) \o unescape(Tail(cs))

\* Parser::new
Parser_new(source, tokens) ==
    [source |-> source, tokens |-> tokens, pos |-> 0, errors |-> <<>>,
     panicked |-> FALSE]

\* Beyond the end the last token stands in.
current_token(px) ==
    IF px.pos < Len(px.tokens) THEN px.tokens[px.pos + 1]
    ELSE px.tokens[Len(px.tokens)]

Parser_peek(px) == current_token(px).kind

Parser_advance(px) ==
    IF px.pos < Len(px.tokens) THEN [px EXCEPT !.pos = @ + 1] ELSE px

at(px, kind) == Parser_peek(px) = kind

Parser_at_end(px) == Parser_peek(px) = "Eof"

\* The text of the current token.
current_text(px) == Token_text(px.source, current_token(px))

\* Parser::text on the current token: the slice panics when the span of
\* the token is off a character boundary, and the parse is abandoned.
Parser_text(px) ==
    [px EXCEPT !.panicked = @ \/ ~on_char_boundaries(px.source,
                                                      current_token(px))]

push_error(px, message, tok, kind) ==
    [px EXCEPT !.errors =
        Append(@, SyntaxError(message, tok.start, tok.end, kind))]

\* Parser::expect; v tells whether the token was there.
expect(px, kind) ==
    IF at(px, kind) THEN [px |-> Parser_advance(px), v |-> TRUE]
    ELSE [px |-> push_error(px,
                     "expected " \o SyntaxKind_name(kind) \o ", found "
                         \o SyntaxKind_name(Parser_peek(px)),
                     current_token(px), "ExpectedToken"),
          v |-> FALSE]

\* `while kinds.contains(self.peek()) { self.advance(); }`
RECURSIVE skip_kinds(_, _)
skip_kinds(px, kinds) ==
    IF Parser_peek(px) \in kinds /\ px.pos < Len(px.tokens)
    THEN skip_kinds(Parser_advance(px), kinds)
    ELSE px

skip_newlines(px) == skip_kinds(px, {"Newline"})

skip_trivia(px) == skip_kinds(px, {"Newline", "Error"})

\* `if self.at(Comma) { self.advance(); }`
eat_comma(px) == IF at(px, "Comma") THEN Parser_advance(px) ELSE px

is_named_arg(px) ==
    px.pos + 1 < Len(px.tokens) /\ px.tokens[px.pos + 2].kind = "Eq"

Parsed(px, v) == [px |-> px, v |-> v]

RECURSIVE Parser_self(_, _)
RECURSIVE parse_type(_)
RECURSIVE parse_type_params(_)
RECURSIVE parse_stmt(_)
RECURSIVE parse_let_stmt(_)
RECURSIVE parse_fn_def(_)
RECURSIVE parse_data_def(_)
RECURSIVE parse_enum_def(_)
RECURSIVE parse_expr(_)
RECURSIVE parse_expr_bp(_, _)
RECURSIVE expr_loop(_, _, _)
RECURSIVE parse_primary(_)
RECURSIVE parse_postfix(_, _)
RECURSIVE parse_ident_or_constructor(_)
RECURSIVE parse_grouped_expr(_)
RECURSIVE parse_list_expr(_)
RECURSIVE list_items(_, _)
RECURSIVE parse_block_expr(_)
RECURSIVE block_stmts(_, _)
RECURSIVE parse_if_expr(_)
RECURSIVE parse_match_expr(_)
RECURSIVE match_arms(_, _)
RECURSIVE parse_lambda_expr(_)
RECURSIVE lambda_params(_, _)
RECURSIVE parse_pattern(_)
RECURSIVE parse_arg_list(_)
RECURSIVE arg_list_loop(_, _)
RECURSIVE parse_field_init_list(_)
RECURSIVE field_init_loop(_, _)
RECURSIVE parse_param_list(_)
RECURSIVE param_list_loop(_, _)
RECURSIVE parse_field_list(_)
RECURSIVE field_list_loop(_, _)

\* The loop over the parameter types of Fn(A, B) -> C.
parse_type_params(px) ==
    IF at(px, "RParen") \/ Parser_at_end(px) THEN px
    ELSE LET p1 == skip_newlines(Parser_self("parse_type", px))
         IN  parse_type_params(IF at(p1, "Comma")
                               THEN skip_newlines(Parser_advance(p1))
                               ELSE p1)

\* Parser::parse_type; the type is not kept, the result is the parser.
parse_type(px) ==
    LET ty_name == current_text(px)
        p1 == Parser_advance(Parser_text(px))
    IN  IF ty_name = "List" /\ at(p1, "LBracket")
        THEN LET p2 == parse_type(skip_newlines(Parser_advance(p1)))
             IN  expect(skip_newlines(p2), "RBracket").px
        ELSE IF ty_name = "Fn" /\ at(p1, "LParen")
        THEN LET p2 == parse_type_params(skip_newlines(Parser_advance(p1)))
                 p3 == skip_newlines(expect(p2, "RParen").px)
                 p4 == skip_newlines(expect(p3, "Arrow").px)
             IN  parse_type(p4)
        ELSE p1

\* `if self.at(Colon) { advance; skip_newlines; parse_type }`
opt_type(px) ==
    IF at(px, "Colon")
    THEN Parser_self("parse_type", skip_newlines(Parser_advance(px)))
    ELSE px

\* `if self.at(Eq) { advance; skip_newlines; Some(parse_expr) }`
opt_default(px) ==
    IF at(px, "Eq")
    THEN LET r == Parser_self("parse_expr", skip_newlines(Parser_advance(px)))
         IN  CASE Forced(r) -> Parsed(r.px, Some(r.v))
    ELSE Parsed(px, None)

parse_stmt(px0) ==
    LET px == skip_newlines(px0)
    IN  CASE Forced(px) ->
        IF Parser_at_end(px) THEN Parsed(px, None)
        ELSE LET r == CASE at(px, "Let") -> Parser_self("parse_let_stmt", px)
                        [] at(px, "Fn") -> Parser_self("parse_fn_def", px)
                        [] at(px, "Data") -> Parser_self("parse_data_def", px)
                        [] at(px, "Enum") -> Parser_self("parse_enum_def", px)
                        [] OTHER ->
                               LET e == Parser_self("parse_expr", px)
                               IN  CASE Forced(e) ->
                                   Parsed(e.px, ExprStmt(e.v))
             IN  CASE Forced(r) -> Parsed(r.px, Some(r.v))

parse_let_stmt(px) ==
    LET p1 == skip_newlines(Parser_advance(px))
        let_name == current_text(p1)
        p2 == skip_newlines(Parser_advance(Parser_text(p1)))
        p3 == skip_newlines(opt_type(p2))
        p4 == skip_newlines(expect(p3, "Eq").px)
        value == Parser_self("parse_expr", p4)
    IN  CASE Forced(<<p1, p2, p3, p4, value>>) ->
        Parsed(value.px, Let(let_name, value.v))

parse_fn_def(px) ==
    LET p1 == skip_newlines(Parser_advance(px))
        fn_name == current_text(p1)
        p2 == skip_newlines(Parser_advance(Parser_text(p1)))
        params == Parser_self("parse_param_list", expect(p2, "LParen").px)
        p3 == skip_newlines(expect(params.px, "RParen").px)
        p4 == IF at(p3, "Arrow")
              THEN Parser_self("parse_type", skip_newlines(Parser_advance(p3)))
              ELSE p3
        body == Parser_self("parse_block_expr", skip_newlines(p4))
    IN  CASE Forced(<<p1, p2, params, p3, p4, body>>) ->
        Parsed(body.px, FnDef(fn_name, params.v, body.v))

parse_data_def(px) ==
    LET p1 == skip_newlines(Parser_advance(px))
        data_name == current_text(p1)
        p2 == skip_newlines(Parser_advance(Parser_text(p1)))
        fields == Parser_self("parse_field_list", expect(p2, "LBrace").px)
    IN  CASE Forced(<<p1, p2, fields>>) ->
        Parsed(expect(fields.px, "RBrace").px, DataDef(data_name, fields.v))

\* The loop over the variants of an enum.
RECURSIVE enum_variants(_, _)
enum_variants(px, variants) ==
    IF at(px, "RBrace") \/ Parser_at_end(px) THEN Parsed(px, variants)
    ELSE LET p1 == skip_newlines(Parser_advance(Parser_text(px)))
         IN  enum_variants(skip_newlines(eat_comma(p1)),
                           Append(variants, current_text(px)))

parse_enum_def(px) ==
    LET p1 == skip_newlines(Parser_advance(px))
        enum_name == current_text(p1)
        p2 == skip_newlines(Parser_advance(Parser_text(p1)))
        p3 == skip_newlines(expect(p2, "LBrace").px)
        variants == enum_variants(p3, <<>>)
    IN  CASE Forced(<<p1, p2, p3, variants>>) ->
        Parsed(expect(variants.px, "RBrace").px,
               EnumDef(enum_name, variants.v))

parse_expr(px) == parse_expr_bp(px, 0)

\* The `loop` of parse_expr_bp: postfix forms, `with`, infix operators.
expr_loop(px, lhs0, min_bp) ==
    LET lhs == parse_postfix(skip_newlines(px), lhs0)
        p2 == skip_newlines(lhs.px)
        bp == infix_bp(Parser_peek(p2))
    IN  CASE Forced(<<px, lhs, p2>>) ->
        IF at(p2, "With")
        THEN LET p3 == skip_newlines(Parser_advance(p2))
                 updates == Parser_self("parse_field_init_list", expect(p3, "LBrace").px)
             IN  CASE Forced(<<p3, updates>>) ->
                 expr_loop(expect(updates.px, "RBrace").px,
                           WithUpdate(lhs.v, updates.v), min_bp)
        ELSE IF ~IsSome(bp) THEN Parsed(p2, lhs.v)
        ELSE IF Unwrap(bp)[1] < min_bp THEN Parsed(p2, lhs.v)
        ELSE LET op_kind == BinOpKind(Parser_peek(p2))
                 p3 == skip_newlines(Parser_advance(p2))
                 rhs == parse_expr_bp(p3, Unwrap(bp)[2])
             IN  CASE Forced(<<p3, rhs>>) ->
                 expr_loop(rhs.px, BinOp(lhs.v, op_kind, rhs.v), min_bp)

\* Pratt parser / precedence climbing.
parse_expr_bp(px0, min_bp) ==
    LET px == skip_newlines(px0)
        bp == prefix_bp(Parser_peek(px))
        lhs == IF IsSome(bp)
               THEN LET operand == parse_expr_bp(Parser_advance(px),
                                                 Unwrap(bp))
                    IN  CASE Forced(operand) ->
                        Parsed(operand.px,
                               UnaryOp(UnaryOpKind(Parser_peek(px)),
                                       operand.v))
               ELSE Parser_self("parse_primary", px)
    IN  CASE Forced(<<px, lhs>>) -> expr_loop(lhs.px, lhs.v, min_bp)

parse_number_lit(px) ==
    LET cs == slice(px.source, current_token(px).start, current_token(px).end)
        kind == Parser_peek(px)
        parts == split_number_unit(cs)
    IN  Parsed(Parser_advance(Parser_text(px)),
            CASE kind = "IntLit" -> IntLit(parse_i64(cs))
              [] kind = "FloatLit" -> FloatLit(parse_f64(cs))
              [] kind = "LengthLit" ->
                     LengthLit(parse_f64(parts[1]),
                               CASE parts[2] = "mm" -> "Mm"
                                 [] parts[2] = "cm" -> "Cm"
                                 [] parts[2] = "m" -> "M"
                                 [] parts[2] = "in" -> "In"
                                 [] OTHER -> "Mm")
              [] kind = "AngleLit" ->
                     AngleLit(parse_f64(parts[1]),
                              CASE parts[2] = "deg" -> "Deg"
                                [] parts[2] = "rad" -> "Rad"
                                [] OTHER -> "Deg"))

parse_string_lit(px) ==
    LET tok == current_token(px)
    IN  Parsed(Parser_advance(Parser_text(px)),
               StringLit(unescape(slice(px.source, tok.start + 1,
                                        tok.end - 1))))

parse_primary(px) ==
    LET kind == Parser_peek(px)
    IN  CASE kind \in {"IntLit", "FloatLit", "LengthLit", "AngleLit"} ->
                 Parser_self("parse_number_lit", px)
          [] kind = "StringLit" -> Parser_self("parse_string_lit", px)
          [] kind = "True" -> Parsed(Parser_advance(px), BoolLit(TRUE))
          [] kind = "False" -> Parsed(Parser_advance(px), BoolLit(FALSE))
          [] kind = "Ident" -> Parser_self("parse_ident_or_constructor", px)
          [] kind = "LParen" -> Parser_self("parse_grouped_expr", px)
          [] kind = "LBracket" -> Parser_self("parse_list_expr", px)
          [] kind = "LBrace" -> Parser_self("parse_block_expr", px)
          [] kind = "If" -> Parser_self("parse_if_expr", px)
          [] kind = "Match" -> Parser_self("parse_match_expr", px)
          [] kind = "Pipe" -> Parser_self("parse_lambda_expr", px)
          [] OTHER ->
                 Parsed(push_error(Parser_advance(px),
                            "expected expression, found " \o SyntaxKind_name(kind),
                            current_token(px), "ExpectedExpr"),
                        IntLit(Big(0)))

parse_postfix(px, lhs) ==
    CASE at(px, "LParen") ->
             LET args == Parser_self("parse_arg_list", Parser_advance(px))
             IN  (CASE Forced(args) ->
                  parse_postfix(expect(args.px, "RParen").px,
                                FnCall(lhs, args.v)))
      [] at(px, "Dot") ->
             LET p1 == Parser_advance(px)
             IN  parse_postfix(Parser_advance(Parser_text(p1)),
                               FieldAccess(lhs, current_text(p1)))
      [] OTHER -> Parsed(px, lhs)

parse_ident_or_constructor(px) ==
    LET tok == current_token(px)
        ident == current_text(px)
        p1 == Parser_advance(Parser_text(px))
    IN  IF at(p1, "LBrace") /\ px.source[tok.start + 1] \in AsciiUpper
        THEN LET fields == Parser_self("parse_field_init_list", Parser_advance(p1))
             IN  CASE Forced(fields) ->
                 Parsed(expect(fields.px, "RBrace").px,
                        DataConstructor(ident, fields.v))
        ELSE Parsed(p1, Ident(ident))

parse_grouped_expr(px) ==
    LET inner == Parser_self("parse_expr", skip_newlines(Parser_advance(px)))
    IN  CASE Forced(inner) ->
        Parsed(expect(skip_newlines(inner.px), "RParen").px,
               Grouped(inner.v))

\* The loop over the items of a list.
list_items(px, items) ==
    IF at(px, "RBracket") \/ Parser_at_end(px) THEN Parsed(px, items)
    ELSE LET item == Parser_self("parse_expr", px)
         IN  CASE Forced(item) ->
             list_items(skip_newlines(eat_comma(skip_newlines(item.px))),
                        Append(items, item.v))

parse_list_expr(px) ==
    LET items == list_items(skip_newlines(Parser_advance(px)), <<>>)
    IN  CASE Forced(items) ->
        Parsed(expect(items.px, "RBracket").px, List(items.v))

\* The loop over the statements of a block.
block_stmts(px0, stmts) ==
    IF at(px0, "RBrace") \/ Parser_at_end(px0) THEN Parsed(px0, stmts)
    ELSE LET px == skip_newlines(px0)
         IN  IF at(px, "RBrace") \/ Parser_at_end(px) THEN Parsed(px, stmts)
             ELSE LET stmt == Parser_self("parse_stmt", px)
                  IN  CASE Forced(stmt) ->
                      block_stmts(
                          skip_kinds(skip_newlines(stmt.px),
                                     {"Semicolon", "Newline"}),
                          IF IsSome(stmt.v)
                          THEN Append(stmts, Unwrap(stmt.v))
                          ELSE stmts)

\* The last expression statement becomes the tail.
parse_block_expr(px) ==
    LET r == block_stmts(skip_newlines(Parser_advance(px)), <<>>)
        n == Len(r.v)
        has_tail == n > 0 /\ r.v[n].s = "Expr"
    IN  CASE Forced(r) ->
        Parsed(expect(r.px, "RBrace").px,
               IF has_tail THEN Block(Front(r.v), Some(r.v[n].expr))
               ELSE Block(r.v, None))

parse_if_expr(px) ==
    LET cond == Parser_self("parse_expr", skip_newlines(Parser_advance(px)))
        then_branch == Parser_self("parse_block_expr", skip_newlines(cond.px))
        p1 == skip_newlines(then_branch.px)
    IN  CASE Forced(<<cond, then_branch, p1>>) ->
        IF at(p1, "Else")
        THEN LET p2 == skip_newlines(Parser_advance(p1))
                 else_branch == IF at(p2, "If") THEN parse_if_expr(p2)
                                ELSE Parser_self("parse_block_expr", p2)
             IN  CASE Forced(<<p2, else_branch>>) ->
                 Parsed(else_branch.px,
                        If(cond.v, then_branch.v, Some(else_branch.v)))
        ELSE Parsed(p1, If(cond.v, then_branch.v, None))

\* The loop over the arms of a match.
match_arms(px, arms) ==
    IF at(px, "RBrace") \/ Parser_at_end(px) THEN Parsed(px, arms)
    ELSE LET pattern == Parser_self("parse_pattern", px)
             p1 == expect(skip_newlines(pattern.px), "FatArrow").px
             body == Parser_self("parse_expr", skip_newlines(p1))
         IN  CASE Forced(<<pattern, p1, body>>) ->
             match_arms(skip_newlines(eat_comma(skip_newlines(body.px))),
                        Append(arms, MatchArm(pattern.v, body.v)))

parse_match_expr(px) ==
    LET subject == Parser_self("parse_expr", skip_newlines(Parser_advance(px)))
        p1 == expect(skip_newlines(subject.px), "LBrace").px
        arms == match_arms(skip_newlines(p1), <<>>)
    IN  CASE Forced(<<subject, p1, arms>>) ->
        Parsed(expect(arms.px, "RBrace").px, Match(subject.v, arms.v))

\* The loop over the parameters of a lambda.
lambda_params(px, params) ==
    IF at(px, "Pipe") \/ Parser_at_end(px) THEN Parsed(px, params)
    ELSE LET p1 == skip_newlines(Parser_advance(Parser_text(px)))
             p2 == skip_newlines(opt_type(p1))
         IN  CASE Forced(<<p1, p2>>) ->
             lambda_params(IF at(p2, "Comma")
                           THEN skip_newlines(Parser_advance(p2))
                           ELSE p2,
                           Append(params, Param(current_text(px), None)))

parse_lambda_expr(px) ==
    LET params == lambda_params(skip_newlines(Parser_advance(px)), <<>>)
        p1 == skip_newlines(expect(params.px, "Pipe").px)
        body == Parser_self("parse_expr", p1)
    IN  CASE Forced(<<params, p1, body>>) ->
        Parsed(body.px, Lambda(params.v, body.v))

parse_pattern(px) ==
    LET kind == Parser_peek(px)
    IN  CASE kind = "Ident" ->
                 Parsed(Parser_advance(Parser_text(px)),
                        IF current_text(px) = "_" THEN PWildcard
                        ELSE PIdent(current_text(px)))
          [] kind \in {"IntLit", "FloatLit", "LengthLit", "AngleLit",
                       "StringLit", "True", "False"} ->
                 LET lit == Parser_self("parse_primary", px)
                 IN  Parsed(lit.px, PLiteral(lit.v))
          [] OTHER ->
                 Parsed(push_error(Parser_advance(px),
                            "expected pattern, found " \o SyntaxKind_name(kind),
                            current_token(px), "ExpectedExpr"),
                        PWildcard)

arg_list_loop(px, args) ==
    IF at(px, "RParen") \/ Parser_at_end(px) THEN Parsed(px, args)
    ELSE LET arg ==
                 IF at(px, "Ident") /\ is_named_arg(px)
                 THEN LET p1 == expect(Parser_advance(Parser_text(px)), "Eq").px
                          value == Parser_self("parse_expr", skip_newlines(p1))
                      IN  Parsed(value.px, Named(current_text(px), value.v))
                 ELSE LET value == Parser_self("parse_expr", px)
                      IN  Parsed(value.px, Pos(value.v))
         IN  CASE Forced(arg) ->
             arg_list_loop(skip_newlines(eat_comma(skip_newlines(arg.px))),
                           Append(args, arg.v))

parse_arg_list(px) == arg_list_loop(skip_newlines(px), <<>>)

field_init_loop(px, fields) ==
    IF at(px, "RBrace") \/ Parser_at_end(px) THEN Parsed(px, fields)
    ELSE LET p1 == skip_newlines(Parser_advance(Parser_text(px)))
             p2 == skip_newlines(expect(p1, "Eq").px)
             value == Parser_self("parse_expr", p2)
         IN  CASE Forced(<<p1, p2, value>>) ->
             field_init_loop(
                 skip_newlines(eat_comma(skip_newlines(value.px))),
                 Append(fields, FieldInit(current_text(px), value.v)))

parse_field_init_list(px) == field_init_loop(skip_newlines(px), <<>>)

param_list_loop(px, params) ==
    IF at(px, "RParen") \/ Parser_at_end(px) THEN Parsed(px, params)
    ELSE LET p1 == skip_newlines(Parser_advance(Parser_text(px)))
             p2 == skip_newlines(opt_type(p1))
             default == opt_default(p2)
         IN  CASE Forced(<<p1, p2, default>>) ->
             param_list_loop(
                 skip_newlines(eat_comma(skip_newlines(default.px))),
                 Append(params, Param(current_text(px), default.v)))

parse_param_list(px) == param_list_loop(skip_newlines(px), <<>>)

field_list_loop(px, fields) ==
    IF at(px, "RBrace") \/ Parser_at_end(px) THEN Parsed(px, fields)
    ELSE LET p1 == skip_newlines(Parser_advance(Parser_text(px)))
             p2 == skip_newlines(expect(p1, "Colon").px)
             p3 == skip_newlines(Parser_self("parse_type", p2))
             default == opt_default(p3)
         IN  CASE Forced(<<p1, p2, p3, default>>) ->
             field_list_loop(
                 skip_newlines(eat_comma(skip_newlines(default.px))),
                 Append(fields, [name |-> current_text(px),
                                 default |-> default.v]))

parse_field_list(px) == field_list_loop(skip_newlines(px), <<>>)

\* The loop of parse_file.
RECURSIVE file_stmts(_, _)
file_stmts(px, stmts) ==
    IF Parser_at_end(px) THEN Parsed(px, stmts)
    ELSE LET stmt == Parser_self("parse_stmt", px)
             p1 == skip_kinds(skip_trivia(stmt.px), {"Semicolon", "Newline"})
         IN  CASE Forced(<<stmt, p1>>) ->
             file_stmts(p1, IF IsSome(stmt.v)
                            THEN Append(stmts, Unwrap(stmt.v))
                            ELSE stmts)

parse_file(px) == file_stmts(skip_trivia(px), <<>>)

\* A call of a method of the parser on the state px (`self.method()`).
Parser_self(method, px) ==
    CASE method = "parse_type" -> parse_type(px)
      [] method = "parse_stmt" -> parse_stmt(px)
      [] method = "parse_let_stmt" -> parse_let_stmt(px)
      [] method = "parse_fn_def" -> parse_fn_def(px)
      [] method = "parse_data_def" -> parse_data_def(px)
      [] method = "parse_enum_def" -> parse_enum_def(px)
      [] method = "parse_expr" -> parse_expr(px)
      [] method = "parse_primary" -> parse_primary(px)
      [] method = "parse_ident_or_constructor" -> parse_ident_or_constructor(px)
      [] method = "parse_grouped_expr" -> parse_grouped_expr(px)
      [] method = "parse_list_expr" -> parse_list_expr(px)
      [] method = "parse_block_expr" -> parse_block_expr(px)
      [] method = "parse_if_expr" -> parse_if_expr(px)
      [] method = "parse_match_expr" -> parse_match_expr(px)
      [] method = "parse_lambda_expr" -> parse_lambda_expr(px)
      [] method = "parse_pattern" -> parse_pattern(px)
      [] method = "parse_arg_list" -> parse_arg_list(px)
      [] method = "parse_field_init_list" -> parse_field_init_list(px)
      [] method = "parse_param_list" -> parse_param_list(px)
      [] method = "parse_field_list" -> parse_field_list(px)
      [] method = "parse_number_lit" -> parse_number_lit(px)
      [] method = "parse_string_lit" -> parse_string_lit(px)
      [] method = "parse_file" -> parse_file(px)

\* The ParseResult of a finished parser: (ast, errors).
ParseResult(r) ==
    [ast |-> r.v, errors |-> r.px.errors, panicked |-> r.px.panicked]

\* parser::parse
parse(source, tokens) ==
    ParseResult(Parser_self("parse_file", Parser_new(source, tokens)))

\* covariant_syntax::parse: lex, parse, and the errors of both
syntax_parse(source) ==
    LET l == lex(source)
        p == parse(source, l.tokens)
    IN  CASE Forced(<<l, p>>) ->
        [ast |-> p.ast, errors |-> l.errors \o p.errors,
         panicked |-> p.panicked]

\* ------------------------------------------------------------------------
\* IR lowering (covariant-ir/src/lower.rs, dag.rs).  The arena is a
\* sequence of IR nodes; NodeId n denotes nodes[n + 1].  Every lowering
\* operator takes the arena and returns the grown arena with its result.
\* ------------------------------------------------------------------------
\* The id handed out is that of the slot after the new node.
insert_next_id(nodes, node) ==
    [nodes |-> Append(nodes, node), id |-> Len(nodes) + 1]

\* Dag::insert
insert(nodes, node) == [nodes |-> Append(nodes, node), id |-> Len(nodes)]

RECURSIVE lower_expr(_, _)
RECURSIVE lower_stmt(_, _)
RECURSIVE lower_exprs(_, _, _, _)
RECURSIVE lower_stmts(_, _, _, _)
RECURSIVE lower_params_from(_, _, _, _)
RECURSIVE lower_args_from(_, _, _, _)
RECURSIVE lower_field_inits_from(_, _, _, _)
RECURSIVE lower_match_arms_from(_, _, _, _)
RECURSIVE lower_fields_from(_, _, _, _)

\* elems.iter().map(|e| self.lower_expr(..)).collect()
lower_exprs(nodes, exprs, i, acc) ==
    IF Forced(nodes) /\ Forced(acc) /\ i > Len(exprs) THEN [nodes |-> nodes, ids |-> acc]
    ELSE LET r == lower_expr(nodes, exprs[i])
         IN  lower_exprs(r.nodes, exprs, i + 1, Append(acc, r.id))

\* stmts.iter().map(|s| self.lower_stmt(..)).collect()
lower_stmts(nodes, stmts, i, acc) ==
    IF Forced(nodes) /\ Forced(acc) /\ i > Len(stmts) THEN [nodes |-> nodes, ids |-> acc]
    ELSE LET r == lower_stmt(nodes, stmts[i])
         IN  lower_stmts(r.nodes, stmts, i + 1, Append(acc, r.id))

\* The id handed on is that of the slot after the lowered expression.
lower_opt_next_id(nodes, opt) ==
    IF IsSome(opt)
    THEN LET r == lower_expr(nodes, Unwrap(opt))
         IN  [nodes |-> r.nodes, id |-> Some(r.id + 1)]
    ELSE [nodes |-> nodes, id |-> None]

\* Option<Expr>.map(|d| self.lower_expr(..))
lower_opt(nodes, opt) ==
    IF IsSome(opt)
    THEN LET r == lower_expr(nodes, Unwrap(opt))
         IN  [nodes |-> r.nodes, id |-> Some(r.id)]
    ELSE [nodes |-> nodes, id |-> None]

lower_params_from(nodes, params, i, acc) ==
    IF Forced(nodes) /\ Forced(acc) /\ i > Len(params) THEN [nodes |-> nodes, items |-> acc]
    ELSE LET d == lower_opt(nodes, params[i].default)
         IN  lower_params_from(d.nodes, params, i + 1,
                 Append(acc, [name |-> params[i].name, default |-> d.id]))

lower_params(nodes, params) == lower_params_from(nodes, params, 1, <<>>)

lower_args_from(nodes, args, i, acc) ==
    IF Forced(nodes) /\ Forced(acc) /\ i > Len(args) THEN [nodes |-> nodes, items |-> acc]
    ELSE LET r == lower_expr(nodes, args[i].value)
         IN  lower_args_from(r.nodes, args, i + 1,
                 Append(acc, [name |-> args[i].name, value |-> r.id]))

lower_args(nodes, args) == lower_args_from(nodes, args, 1, <<>>)

lower_field_inits_from(nodes, fields, i, acc) ==
    IF Forced(nodes) /\ Forced(acc) /\ i > Len(fields) THEN [nodes |-> nodes, items |-> acc]
    ELSE LET r == lower_expr(nodes, fields[i].value)
         IN  lower_field_inits_from(r.nodes, fields, i + 1,
                 Append(acc, [name |-> fields[i].name, value |-> r.id]))

lower_field_inits(nodes, fields) ==
    lower_field_inits_from(nodes, fields, 1, <<>>)

lower_match_arms_from(nodes, arms, i, acc) ==
    IF Forced(nodes) /\ Forced(acc) /\ i > Len(arms) THEN [nodes |-> nodes, items |-> acc]
    ELSE LET r == lower_expr(nodes, arms[i].body)
         IN  lower_match_arms_from(r.nodes, arms, i + 1,
                 Append(acc, [pattern |-> arms[i].pattern, body |-> r.id]))

lower_match_arms(nodes, arms) == lower_match_arms_from(nodes, arms, 1, <<>>)

lower_fields_from(nodes, fields, i, acc) ==
    IF Forced(nodes) /\ Forced(acc) /\ i > Len(fields) THEN [nodes |-> nodes, items |-> acc]
    ELSE LET d == lower_opt(nodes, fields[i].default)
         IN  lower_fields_from(d.nodes, fields, i + 1,
                 Append(acc, [name |-> fields[i].name, default |-> d.id]))

lower_fields(nodes, fields) == lower_fields_from(nodes, fields, 1, <<>>)

\* The piped value goes last, after the call's own arguments.
lower_pipe_appending(nodes, lhs, rhs) ==
    LET l == lower_expr(nodes, lhs)
        lhs_arg == [name |-> None, value |-> l.id]
    IN  IF rhs.e = "FnCall"
        THEN LET f == lower_expr(l.nodes, rhs.func)
                 a == lower_args(f.nodes, rhs.args)
             IN  insert(a.nodes, [k |-> "FnCall", func |-> f.id,
                                  args |-> a.items \o <<lhs_arg>>])
        ELSE LET f == lower_expr(l.nodes, rhs)
             IN  insert(f.nodes, [k |-> "FnCall", func |-> f.id,
                                  args |-> <<lhs_arg>>])

\* Desugar `lhs |> rhs` into FnCall.
lower_pipe(nodes, lhs, rhs) ==
    LET l == lower_expr(nodes, lhs)
        lhs_arg == [name |-> None, value |-> l.id]
    IN  IF rhs.e = "FnCall"
        THEN LET f == lower_expr(l.nodes, rhs.func)
                 a == lower_args(f.nodes, rhs.args)
             IN  insert(a.nodes, [k |-> "FnCall", func |-> f.id,
                                  args |-> <<lhs_arg>> \o a.items])
        ELSE LET f == lower_expr(l.nodes, rhs)
             IN  insert(f.nodes, [k |-> "FnCall", func |-> f.id,
                                  args |-> <<lhs_arg>>])

\* A plain (non-pipe) binary operation: lower both sides, insert a BinOp.
lower_plain_binop(nodes, expr) ==
    LET l == lower_expr(nodes, expr.lhs)
        r == lower_expr(l.nodes, expr.rhs)
    IN  insert(r.nodes, [k |-> "BinOp", lhs |-> l.id, op |-> expr.op,
                         rhs |-> r.id])

\* The arm without its Pipe test: every operator becomes a BinOp node.
lower_binop_keeping_pipe(nodes, expr) == lower_plain_binop(nodes, expr)

\* lower_expr, Expr::BinOp arm.
lower_binop(nodes, expr) ==
    IF expr.op = "Pipe"
    THEN lower_pipe(nodes, expr.lhs, expr.rhs)
    ELSE lower_plain_binop(nodes, expr)

lower_expr(nodes, expr) ==
    CASE Forced(nodes) /\ expr.e = "IntLit" -> insert(nodes, [k |-> "IntLit", n |-> expr.n])
      [] expr.e = "FloatLit" -> insert(nodes, [k |-> "FloatLit", f |-> expr.f])
      [] expr.e = "LengthLit" ->
            insert(nodes, [k |-> "LengthLit", f |-> expr.f, unit |-> expr.unit])
      [] expr.e = "AngleLit" ->
            insert(nodes, [k |-> "AngleLit", f |-> expr.f, unit |-> expr.unit])
      [] expr.e = "BoolLit" -> insert(nodes, [k |-> "BoolLit", b |-> expr.b])
      [] expr.e = "StringLit" ->
            insert(nodes, [k |-> "StringLit", str |-> expr.str])
      [] expr.e = "Ident" -> insert(nodes, [k |-> "Ident", name |-> expr.name])
      [] expr.e = "BinOp" -> lower_binop(nodes, expr)
      [] expr.e = "UnaryOp" ->
            LET o == lower_expr(nodes, expr.operand)
            IN  insert(o.nodes, [k |-> "UnaryOp", op |-> expr.op,
                                 operand |-> o.id])
      [] expr.e = "FnCall" ->
            LET f == lower_expr(nodes, expr.func)
                a == lower_args(f.nodes, expr.args)
            IN  insert(a.nodes, [k |-> "FnCall", func |-> f.id,
                                 args |-> a.items])
      [] expr.e = "FieldAccess" ->
            LET o == lower_expr(nodes, expr.object)
            IN  insert(o.nodes, [k |-> "FieldAccess", object |-> o.id,
                                 field |-> expr.field])
      [] expr.e = "Lambda" ->
            LET p == lower_params(nodes, expr.params)
                b == lower_expr(p.nodes, expr.body)
            IN  insert(b.nodes, [k |-> "Lambda", params |-> p.items,
                                 body |-> b.id])
      [] expr.e = "List" ->
            LET r == lower_exprs(nodes, expr.elems, 1, <<>>)
            IN  insert(r.nodes, [k |-> "List", elems |-> r.ids])
      [] expr.e = "DataConstructor" ->
            LET f == lower_field_inits(nodes, expr.fields)
            IN  insert(f.nodes, [k |-> "DataConstructor", name |-> expr.name,
                                 fields |-> f.items])
      [] expr.e = "WithUpdate" ->
            LET b == lower_expr(nodes, expr.base)
                u == lower_field_inits(b.nodes, expr.updates)
            IN  insert(u.nodes, [k |-> "WithUpdate", base |-> b.id,
                                 updates |-> u.items])
      [] expr.e = "If" ->
            LET c == lower_expr(nodes, expr.cond)
                th == lower_expr(c.nodes, expr.then_branch)
                el == lower_opt(th.nodes, expr.else_branch)
            IN  insert(el.nodes, [k |-> "If", cond |-> c.id,
                                  then_branch |-> th.id,
                                  else_branch |-> el.id])
      [] expr.e = "Match" ->
            LET sub == lower_expr(nodes, expr.subject)
                a == lower_match_arms(sub.nodes, expr.arms)
            IN  insert(a.nodes, [k |-> "Match", subject |-> sub.id,
                                 arms |-> a.items])
      [] expr.e = "Block" ->
            LET st == lower_stmts(nodes, expr.stmts, 1, <<>>)
                tl == lower_opt(st.nodes, expr.tail)
            IN  insert(tl.nodes, [k |-> "Block", stmts |-> st.ids,
                                  tail |-> tl.id])
      [] expr.e = "Grouped" -> lower_expr(nodes, expr.inner)

lower_stmt(nodes, stmt) ==
    CASE Forced(nodes) /\ stmt.s = "Let" ->
            LET v == lower_expr(nodes, stmt.value)
            IN  insert(v.nodes, [k |-> "Let", name |-> stmt.name,
                                 value |-> v.id])
      [] stmt.s = "FnDef" ->
            LET p == lower_params(nodes, stmt.params)
                b == lower_expr(p.nodes, stmt.body)
            IN  insert(b.nodes, [k |-> "FnDef", name |-> stmt.name,
                                 params |-> p.items, body |-> b.id])
      [] stmt.s = "DataDef" ->
            LET f == lower_fields(nodes, stmt.fields)
            IN  insert(f.nodes, [k |-> "DataDef", name |-> stmt.name,
                                 fields |-> f.items])
      [] stmt.s = "EnumDef" ->
            insert(nodes, [k |-> "EnumDef", name |-> stmt.name,
                           variants |-> stmt.variants])
      [] stmt.s = "Expr" -> lower_expr(nodes, stmt.expr)

\* lower(source): every top-level statement becomes one root, in order.
lower(stmts) ==
    LET r == lower_stmts(<<>>, stmts, 1, <<>>)
    IN  [nodes |-> r.nodes, roots |-> r.ids]

\* ------------------------------------------------------------------------
\* Operator semantics (covariant-eval/src/eval.rs).
\* ------------------------------------------------------------------------
Is(l, r, tl, tr) == l.t = tl /\ r.t = tr

\* Integer arithmetic whose exact result x may lie outside i64.  `+`, `-`,
\* `*` and unary `-` then panic ("attempt to ... with overflow") in a build
\* with overflow checks and wrap around in one without; `/` panics in
\* every build.  Overflow(msg, wraps) is that outcome, wraps the wrapped
\* value where a build can produce it.
Overflow(msg, wraps) ==
    [ok |-> FALSE, kind |-> "Overflow", msg |-> msg, wraps |-> wraps]

i64_arith(x, what) ==
    IF InI64(x) THEN Ok(VInt(x))
    ELSE Overflow("attempt to " \o what \o " with overflow",
                  Some(VInt(I64Wrap(x))))

i64_div(a, b) ==
    IF InI64(BigDiv(a, b)) THEN Ok(VInt(BigDiv(a, b)))
    ELSE Overflow("attempt to divide with overflow", None)

type_error_binop(op, lhs, rhs, span) ==
    Err("TypeError", "cannot apply '" \o op \o "'", Some(span))

\* Compare two values for equality.
values_equal(a, b) ==
    CASE Is(a, b, "Int", "Int") -> a.n = b.n
      [] Is(a, b, "Float", "Float") -> FEq(a.f, b.f)
      [] Is(a, b, "Length", "Length") -> FEq(a.f, b.f)
      [] Is(a, b, "Angle", "Angle") -> FEq(a.f, b.f)
      [] Is(a, b, "Bool", "Bool") -> a.b = b.b
      [] Is(a, b, "String", "String") -> a.s = b.s
      [] Is(a, b, "Vec3", "Vec3") ->
            \A i \in 1..3 : FEq(a.v[i], b.v[i])
      [] Is(a, b, "Unit", "Unit") -> TRUE
      [] Is(a, b, "EnumVariant", "EnumVariant") ->
            a.type_name = b.type_name /\ a.variant = b.variant
      [] OTHER -> FALSE

\* Compare two values, returning -1, 0, or 1.
compare_values(a, b, span) ==
    CASE Is(a, b, "Int", "Int") -> Ok(BigCmp(a.n, b.n))
      [] Is(a, b, "Float", "Float") -> Ok(FCmp(a.f, b.f))
      [] Is(a, b, "Length", "Length") -> Ok(FCmp(a.f, b.f))
      [] Is(a, b, "Angle", "Angle") -> Ok(FCmp(a.f, b.f))
      [] Is(a, b, "Int", "Float") -> Ok(FCmp(IntToF(a.n), b.f))
      [] Is(a, b, "Float", "Int") -> Ok(FCmp(a.f, IntToF(b.n)))
      [] OTHER -> Err("TypeError", "cannot compare", Some(span))

binop_add(l, r, span) ==
    CASE Is(l, r, "Int", "Int") -> i64_arith(BigAdd(l.n, r.n), "add")
      [] Is(l, r, "Float", "Float") -> Ok(VFloat(FAdd(l.f, r.f)))
      [] Is(l, r, "Length", "Length") -> Ok(VLength(FAdd(l.f, r.f)))
      [] Is(l, r, "Angle", "Angle") -> Ok(VAngle(FAdd(l.f, r.f)))
      [] Is(l, r, "Int", "Float") -> Ok(VFloat(FAdd(IntToF(l.n), r.f)))
      [] Is(l, r, "Float", "Int") -> Ok(VFloat(FAdd(l.f, IntToF(r.n))))
      [] Is(l, r, "String", "String") -> Ok(VString(l.s \o r.s))
      [] OTHER -> type_error_binop("+", l, r, span)

binop_sub(l, r, span) ==
    CASE Is(l, r, "Int", "Int") -> i64_arith(BigSub(l.n, r.n), "subtract")
      [] Is(l, r, "Float", "Float") -> Ok(VFloat(FSub(l.f, r.f)))
      [] Is(l, r, "Length", "Length") -> Ok(VLength(FSub(l.f, r.f)))
      [] Is(l, r, "Angle", "Angle") -> Ok(VAngle(FSub(l.f, r.f)))
      [] Is(l, r, "Int", "Float") -> Ok(VFloat(FSub(IntToF(l.n), r.f)))
      [] Is(l, r, "Float", "Int") -> Ok(VFloat(FSub(l.f, IntToF(r.n))))
      [] OTHER -> type_error_binop("-", l, r, span)

binop_mul(l, r, span) ==
    CASE Is(l, r, "Int", "Int") -> i64_arith(BigMul(l.n, r.n), "multiply")
      [] Is(l, r, "Float", "Float") -> Ok(VFloat(FMul(l.f, r.f)))
      [] Is(l, r, "Length", "Float") -> Ok(VLength(FMul(l.f, r.f)))
      [] Is(l, r, "Float", "Length") -> Ok(VLength(FMul(l.f, r.f)))
      [] Is(l, r, "Length", "Int") -> Ok(VLength(FMul(l.f, IntToF(r.n))))
      [] Is(l, r, "Int", "Length") -> Ok(VLength(FMul(IntToF(l.n), r.f)))
      [] Is(l, r, "Int", "Float") -> Ok(VFloat(FMul(IntToF(l.n), r.f)))
      [] Is(l, r, "Float", "Int") -> Ok(VFloat(FMul(l.f, IntToF(r.n))))
      [] OTHER -> type_error_binop("*", l, r, span)

\* BinOpKind::Div, first match: the zero-divisor check.
div_by_zero(l, r) ==
    \/ Is(l, r, "Int", "Int") /\ r.n = Big(0)
    \/ Is(l, r, "Float", "Int") /\ r.n = Big(0)
    \/ r.t = "Float" /\ FEq(r.f, FZero)
    \/ r.t = "Length" /\ FEq(r.f, FZero)

\* BinOpKind::Div, second match: the division itself.
div_apply(l, r, span) ==
    CASE Is(l, r, "Int", "Int") -> i64_div(l.n, r.n)
      [] Is(l, r, "Float", "Float") -> Ok(VFloat(FDiv(l.f, r.f)))
      [] Is(l, r, "Length", "Float") -> Ok(VLength(FDiv(l.f, r.f)))
      [] Is(l, r, "Length", "Int") -> Ok(VLength(FDiv(l.f, IntToF(r.n))))
      [] Is(l, r, "Length", "Length") -> Ok(VFloat(FDiv(l.f, r.f)))
      [] Is(l, r, "Int", "Float") -> Ok(VFloat(FDiv(IntToF(l.n), r.f)))
      [] Is(l, r, "Float", "Int") -> Ok(VFloat(FDiv(l.f, IntToF(r.n))))
      [] OTHER -> type_error_binop("/", l, r, span)

binop_div(l, r, span) ==
    IF div_by_zero(l, r)
    THEN Err("DivisionByZero", "division by zero", Some(span))
    ELSE div_apply(l, r, span)

cmp_result(l, r, span, op) ==
    LET c == compare_values(l, r, span)
    IN  IF ~c.ok THEN c
        ELSE CASE op = "Lt" -> Ok(VBool(c.v < 0))
               [] op = "Leq" -> Ok(VBool(c.v <= 0))
               [] op = "Gt" -> Ok(VBool(c.v > 0))
               [] op = "Geq" -> Ok(VBool(c.v >= 0))

\* Evaluate a binary operation.
eval_binop(lhs, op, rhs, span) ==
    CASE op = "Add" -> binop_add(lhs, rhs, span)
      [] op = "Sub" -> binop_sub(lhs, rhs, span)
      [] op = "Mul" -> binop_mul(lhs, rhs, span)
      [] op = "Div" -> binop_div(lhs, rhs, span)
      [] op = "Eq" -> Ok(VBool(values_equal(lhs, rhs)))
      [] op = "Neq" -> Ok(VBool(~values_equal(lhs, rhs)))
      [] op \in {"Lt", "Leq", "Gt", "Geq"} -> cmp_result(lhs, rhs, span, op)
      [] op = "And" ->
            IF Is(lhs, rhs, "Bool", "Bool")
            THEN Ok(VBool(lhs.b /\ rhs.b))
            ELSE type_error_binop("&&", lhs, rhs, span)
      [] op = "Or" ->
            IF Is(lhs, rhs, "Bool", "Bool")
            THEN Ok(VBool(lhs.b \/ rhs.b))
            ELSE type_error_binop("||", lhs, rhs, span)
      [] op = "Pipe" ->
            Err("Custom", "pipe operator should have been desugared",
                Some(span))

\* Evaluate a unary operation.
eval_unaryop(op, val, span) ==
    CASE op = "Neg" ->
            CASE val.t = "Int" -> i64_arith(BigNeg(val.n), "negate")
              [] val.t = "Float" -> Ok(VFloat(FNeg(val.f)))
              [] val.t = "Length" -> Ok(VLength(FNeg(val.f)))
              [] val.t = "Angle" -> Ok(VAngle(FNeg(val.f)))
              [] OTHER -> Err("TypeError", "cannot negate", Some(span))
      [] op = "Not" ->
            IF val.t = "Bool" THEN Ok(VBool(~val.b))
            ELSE Err("TypeError", "cannot apply !", Some(span))

\* Evaluate a literal expression within a pattern (an AST expression).
eval_pattern_literal(expr) ==
    CASE expr.e = "IntLit" -> Some(VInt(expr.n))
      [] expr.e = "FloatLit" -> Some(VFloat(expr.f))
      [] expr.e = "BoolLit" -> Some(VBool(expr.b))
      [] expr.e = "StringLit" -> Some(VString(expr.str))
      [] expr.e = "LengthLit" -> Some(VLength(length_to_mm(expr.f, expr.unit)))
      [] expr.e = "AngleLit" -> Some(VAngle(angle_to_rad(expr.f, expr.unit)))
      [] OTHER -> None

\* match_pattern with every identifier pattern a capture.
match_pattern_ident_always_binds(env, pattern, value) ==
    CASE pattern.p = "Wildcard" -> Some(<<>>)
      [] pattern.p = "Ident" -> Some(<< <<pattern.name, value>> >>)
      [] pattern.p = "Literal" ->
            LET lit_val == eval_pattern_literal(pattern.lit)
            IN  IF IsSome(lit_val) /\ values_equal(Unwrap(lit_val), value)
                THEN Some(<<>>) ELSE None

\* Try to match a pattern against a value: Some(bindings) or None, the
\* bindings a sequence of <<name, value>> pairs.
match_pattern(env, pattern, value) ==
    CASE pattern.p = "Wildcard" -> Some(<<>>)
      [] pattern.p = "Ident" ->
            LET env_val == lookup(env, pattern.name)
            IN  IF IsSome(env_val) /\ Unwrap(env_val).t = "EnumVariant"
                THEN IF values_equal(Unwrap(env_val), value)
                     THEN Some(<<>>) ELSE None
                ELSE Some(<< <<pattern.name, value>> >>)
      [] pattern.p = "Literal" ->
            LET lit_val == eval_pattern_literal(pattern.lit)
            IN  IF IsSome(lit_val) /\ values_equal(Unwrap(lit_val), value)
                THEN Some(<<>>) ELSE None

\* ------------------------------------------------------------------------
\* Builtins (covariant-eval/src/builtins.rs).
\* ------------------------------------------------------------------------
check_arity(name, args, expected) ==
    IF Len(args) # expected
    THEN Some(Err("ArityMismatch", name \o " expects other argument count",
                  None))
    ELSE None

expect_f64(val, arg_name) ==
    IF IsSome(as_f64(val)) THEN Ok(Unwrap(as_f64(val)))
    ELSE Err("TypeError", "expected numeric value for '" \o arg_name \o "'",
             None)

expect_length(val, arg_name) ==
    IF val.t \in {"Length", "Float"} THEN Ok(val.f)
    ELSE IF val.t = "Int" THEN Ok(IntToF(val.n))
    ELSE Err("TypeError", "expected Length for '" \o arg_name \o "'", None)

expect_string(val, arg_name) ==
    IF val.t = "String" THEN Ok(val.s)
    ELSE Err("TypeError", "expected String for '" \o arg_name \o "'", None)

builtin_sphere(args) ==
    IF IsSome(check_arity("sphere", args, 1))
    THEN Unwrap(check_arity("sphere", args, 1))
    ELSE LET r == expect_length(args[1], "radius")
         IN  IF r.ok THEN Ok(VSolid(<<"sphere", r.v>>)) ELSE r

builtin_vec3(args) ==
    IF IsSome(check_arity("vec3", args, 3))
    THEN Unwrap(check_arity("vec3", args, 3))
    ELSE LET x == expect_f64(args[1], "x")
             y == expect_f64(args[2], "y")
             z == expect_f64(args[3], "z")
         IN  IF ~x.ok THEN x
             ELSE IF ~y.ok THEN y
             ELSE IF ~z.ok THEN z
             ELSE Ok(VVec3(x.v, y.v, z.v))

builtin_trace(args) ==
    IF IsSome(check_arity("trace", args, 2))
    THEN Unwrap(check_arity("trace", args, 2))
    ELSE LET label == expect_string(args[1], "label")
         IN  IF label.ok THEN Ok(args[2]) ELSE label

\* The builtins whose closures the model evaluates.  map is the one
\* builtin that re-enters the evaluator; the machine below runs it.
PureBuiltins == {"sphere", "vec3", "trace"}

builtin_apply(name, args) ==
    CASE name = "sphere" -> builtin_sphere(args)
      [] name = "vec3" -> builtin_vec3(args)
      [] name = "trace" -> builtin_trace(args)

\* Every name register() binds to a BuiltinFn value.
BuiltinFnNames ==
    {"box", "cylinder", "sphere", "vec3", "union", "difference", "intersect",
     "union_many", "move", "rotate", "scale", "threaded_hole", "trace",
     "export_stl", "map"}

\* ThreadSize::ALL, by Debug name.
ThreadSizeNames ==
    {"M1_6", "M2", "M2_5", "M3", "M4", "M5", "M6", "M8", "M10", "M12", "M14",
     "M16", "M20", "M24", "M30", "Uts2_56", "Uts4_40", "Uts6_32", "Uts8_32",
     "Uts10_24", "Uts10_32", "Uts1_4_20", "Uts5_16_18", "Uts3_8_16",
     "Uts7_16_14", "Uts1_2_13", "Uts5_8_11", "Uts3_4_10"}

\* register_enum_constants
enum_constant(n) ==
    CASE n = "ISO_METRIC" -> VEnumVariant("ThreadStandard", "IsoMetric")
      [] n = "UTS" -> VEnumVariant("ThreadStandard", "Uts")
      [] n = "TAP" -> VEnumVariant("ThreadKind", "Internal")
      [] n = "CLEARANCE" -> VEnumVariant("ThreadKind", "ClearanceMedium")
      [] n = "INSERT" -> VEnumVariant("ThreadKind", "Insert")
      [] n \in ThreadSizeNames -> VEnumVariant("ThreadSize", n)

EnumConstantNames ==
    {"ISO_METRIC", "UTS", "TAP", "CLEARANCE", "INSERT"} \cup ThreadSizeNames

\* register_builtins: defines every builtin and constant in the current
\* (innermost) scope of env.
register_builtins(env) ==
    LET top == Last(env.scopes)
        names == BuiltinFnNames \cup EnumConstantNames
        new == [n \in (DOMAIN top) \cup names |->
                   IF n \in BuiltinFnNames THEN VBuiltinFn(n)
                   ELSE IF n \in EnumConstantNames THEN enum_constant(n)
                   ELSE top[n]]
    IN  [scopes |-> Append(Front(env.scopes), new)]

\* The decoration with the span of the call always written.
builtin_map_err_overwriting_span(e, name, span) ==
    [e EXCEPT !.span = Some(span), !.msg = name \o ": " \o e.msg]

\* The error decoration eval_call applies to a builtin's error.
builtin_map_err(e, name, span) ==
    [e EXCEPT !.span = IF e.span = None THEN Some(span) ELSE e.span,
              !.msg = name \o ": " \o e.msg]

\* ------------------------------------------------------------------------
\* The pipeline as a state machine.
\*   src         the parsed source file (its top-level statements)
\*   pc          "lower" -> "init" -> "run" -> "done" (or "panic", or
\*               "overflow")
\*   dag         the Dag produced by lower: arena nodes and roots
\*   env         EvalCtx.env
\*   data_types  EvalCtx.data_types
\*   stack       the live activations of eval_node, innermost last
\*   ctl         what happens next: evaluate a node, resume a loop of the
\*               innermost activation, or hand a result to it
\*   ri, last    the root loop of eval: next root position, last value
\*   result      what eval returned, once it has
\*   trace       the node ids eval_node was entered with, in order
\*   ev          the most recent return of eval_node: node, final frame,
\*               env at entry and at return, last result handed to the
\*               frame, length of trace at return, result returned
\* Every frame records, besides the locals of its activation, the env
\* (env0) and the length of trace (t0) at the activation's entry.
\* ------------------------------------------------------------------------
VARIABLES src, pc, dag, env, data_types, stack, ctl, ri, last, result,
          trace, ev, front

vars == <<src, pc, dag, env, data_types, stack, ctl, ri, last, result,
          trace, ev, front>>

NodeAt(id) == dag.nodes[id + 1]

Top == Last(stack)

ContCtl == [m |-> "cont"]

EvalCtl(id) == [m |-> "eval", id |-> id]

RetCtl(r) == [m |-> "ret", r |-> r]

\* Placeholder for "no result was handed in".
NoInput == Ok(VUnit)

NoEvent ==
    [id |-> -1, f |-> [k |-> "none"], env0 |-> Env_new, inp |-> NoInput,
     env1 |-> Env_new, t1 |-> 0, r |-> Ok(VUnit)]

Static == UNCHANGED <<src, dag, pc, ri, last, result>>

\* eval_node calls itself on the native stack, one activation per frame
\* of `stack`; the stack holds MaxDepth activations.
MaxDepth == 16

\* eval_node is entered with a node of kind k.
Entering(k) ==
    /\ pc = "run"
    /\ ctl.m = "eval"
    /\ Len(stack) < MaxDepth
    /\ NodeAt(ctl.id).k = k
    /\ trace' = Append(trace, ctl.id)
    /\ UNCHANGED front

\* A result is handed to the innermost activation, which is in phase k.
Returning(k) ==
    /\ pc = "run"
    /\ ctl.m = "ret"
    /\ stack # <<>>
    /\ Top.k = k
    /\ UNCHANGED <<trace, front>>

\* The innermost activation is at the head of its loop k.
Looping(k) ==
    /\ pc = "run"
    /\ ctl.m = "cont"
    /\ stack # <<>>
    /\ Top.k = k
    /\ UNCHANGED <<trace, front>>

\* eval_node returns r at once, leaving envNew.
Leaf(r, envNew) ==
    /\ env' = envNew
    /\ ctl' = RetCtl(r)
    /\ ev' = [id |-> ctl.id, f |-> [k |-> "leaf"], env0 |-> env,
              inp |-> NoInput, env1 |-> envNew, t1 |-> Len(trace'),
              r |-> r]
    /\ UNCHANGED stack

\* A new activation starts with frame f and goes on with next.
Push(f, next) ==
    /\ stack' = Append(stack, f)
    /\ ctl' = next
    /\ UNCHANGED ev

\* The innermost activation moves to frame f and goes on with next.
Goto(f, next) ==
    /\ stack' = Append(Front(stack), f)
    /\ ctl' = next
    /\ UNCHANGED ev

\* The innermost activation returns r, leaving envNew.
Ret(r, envNew) ==
    /\ env' = envNew
    /\ stack' = Front(stack)
    /\ ctl' = RetCtl(r)
    /\ ev' = [id |-> Top.id, f |-> Top, env0 |-> Top.env0,
              inp |-> IF ctl.m = "ret" THEN ctl.r ELSE NoInput,
              env1 |-> envNew, t1 |-> Len(trace), r |-> r]

\* A panic: the process aborts with msg, eval returns nothing.
PanicWith(msg) ==
    /\ pc' = "panic"
    /\ result' = Some(Err("Panic", msg, None))
    /\ UNCHANGED <<src, dag, env, data_types, stack, ctl, ri, last, ev>>

\* eval_node is called with no room left on the native stack: the
\* process is killed, eval returns nothing.
StackOverflow ==
    /\ pc = "run"
    /\ ctl.m = "eval"
    /\ Len(stack) >= MaxDepth
    /\ pc' = "overflow"
    /\ result' = Some(Err("Abort", "stack overflow", None))
    /\ UNCHANGED <<src, dag, env, data_types, stack, ctl, ri, last, trace,
                   ev, front>>

\* The assertion in Env::pop_scope fails.
Panic == PanicWith("cannot pop the global scope")

\* An operator result r is returned; an i64 overflow panics or, where the
\* build wraps, returns the wrapped value.
RetArith(r) ==
    IF ~r.ok /\ r.kind = "Overflow"
    THEN \/ PanicWith(r.msg)
         \/ /\ IsSome(r.wraps)
            /\ Ret(Ok(Unwrap(r.wraps)), env)
            /\ Static
    ELSE Ret(r, env) /\ Static

\* self.env.pop_scope(); then return r.
PopRet(r) ==
    IF CanPop(env)
    THEN Ret(r, pop_scope(env)) /\ Static
    ELSE Panic

\* ---- the pipeline driver (covariant-cli main.rs, eval) ----

\* ---- the front of the pipeline (covariant-syntax lib.rs, main.rs) ----
\* front holds the source text, the tokens, the errors of the lexer, the
\* errors handed to parse_and_lower, and the stages that have run.
NoSource ==
    [source |-> <<>>, tokens |-> <<>>, lex_errors |-> <<>>,
     parse_errors |-> <<>>, ran |-> {}]

Ran(stage) == [front EXCEPT !.ran = @ \cup {stage}]

\* covariant_syntax::parse, first half: lexer::lex(source)
Lex ==
    /\ pc = "lex"
    /\ \E l \in {lex(front.source)} :
           front' = [Ran("lex") EXCEPT !.tokens = l.tokens,
                                       !.lex_errors = l.errors]
    /\ pc' = "parse"
    /\ UNCHANGED <<src, dag, env, data_types, stack, ctl, ri, last, result,
                   trace, ev>>

\* A slice of the source off a character boundary: the parser panics, no
\* ParseResult is returned.
SlicePanic ==
    /\ pc' = "panic"
    /\ result' = Some(Err("Panic", "byte index is not a char boundary", None))
    /\ UNCHANGED <<src, front>>

\* Parse with the errors of the lexer dropped.
Parse_dropping_lex_errors ==
    /\ pc = "parse"
    /\ \E p \in {parse(front.source, front.tokens)} :
           IF p.panicked THEN SlicePanic
           ELSE /\ src' = p.ast
                /\ front' = [Ran("parse") EXCEPT !.parse_errors = p.errors]
                /\ pc' = IF p.errors = <<>> THEN "lower" ELSE "exit"
                /\ UNCHANGED result
    /\ UNCHANGED <<dag, env, data_types, stack, ctl, ri, last, trace, ev>>

\* covariant_syntax::parse, second half: parser::parse(source, tokens) and
\* lex_errors.extend(parse_errors); then parse_and_lower returns Err when
\* the list is not empty.
Parse ==
    /\ pc = "parse"
    /\ \E p \in {parse(front.source, front.tokens)} :
       \E errors \in {front.lex_errors \o p.errors} :
           IF p.panicked THEN SlicePanic
           ELSE /\ src' = p.ast
                /\ front' = [Ran("parse") EXCEPT !.parse_errors = errors]
                /\ pc' = IF errors = <<>> THEN "lower" ELSE "exit"
                /\ UNCHANGED result
    /\ UNCHANGED <<dag, env, data_types, stack, ctl, ri, last, trace, ev>>

\* covariant_ir::lower(&ast); lowering records no error.
Lower ==
    /\ pc = "lower"
    /\ dag' = lower(src)
    /\ pc' = "init"
    /\ front' = Ran("lower")
    /\ UNCHANGED <<src, env, data_types, stack, ctl, ri, last, result,
                   trace, ev>>

\* eval: Env::new(), register_builtins, EvalCtx::new, last = Unit.
EvalInit ==
    /\ pc = "init"
    /\ env' = register_builtins(Env_new)
    /\ data_types' = EmptyScope
    /\ last' = VUnit
    /\ ri' = 1
    /\ ctl' = ContCtl
    /\ pc' = "run"
    /\ front' = Ran("eval")
    /\ UNCHANGED <<src, dag, stack, result, trace, ev>>

\* eval: head of `for &root in roots`, and `Ok(last)` after the loop.
RootLoop ==
    /\ pc = "run"
    /\ ctl.m = "cont"
    /\ stack = <<>>
    /\ IF ri <= Len(dag.roots)
       THEN /\ ctl' = EvalCtl(dag.roots[ri])
            /\ UNCHANGED <<pc, result>>
       ELSE /\ result' = Some(Ok(last))
            /\ pc' = "done"
            /\ UNCHANGED ctl
    /\ UNCHANGED <<src, dag, env, data_types, stack, ri, last, trace, ev,
                   front>>

\* RootReturn with the error of a root dropped: the loop goes on.
RootReturn_ignoring_error ==
    /\ pc = "run"
    /\ ctl.m = "ret"
    /\ stack = <<>>
    /\ last' = IF ctl.r.ok THEN ctl.r.v ELSE last
    /\ ri' = ri + 1
    /\ ctl' = ContCtl
    /\ UNCHANGED <<pc, result>>
    /\ UNCHANGED <<src, dag, env, data_types, stack, trace, ev, front>>

\* eval: `last = ctx.eval_node(root)?;`
RootReturn ==
    /\ pc = "run"
    /\ ctl.m = "ret"
    /\ stack = <<>>
    /\ IF ctl.r.ok
       THEN /\ last' = ctl.r.v
            /\ ri' = ri + 1
            /\ ctl' = ContCtl
            /\ UNCHANGED <<pc, result>>
       ELSE /\ result' = Some(ctl.r)
            /\ pc' = "done"
            /\ UNCHANGED <<last, ri, ctl>>
    /\ UNCHANGED <<src, dag, env, data_types, stack, trace, ev, front>>

\* ---- eval_node: nodes that evaluate without recursion ----

literal_value(node) ==
    CASE node.k = "IntLit" -> VInt(node.n)
      [] node.k = "FloatLit" -> VFloat(node.f)
      [] node.k = "LengthLit" -> VLength(length_to_mm(node.f, node.unit))
      [] node.k = "AngleLit" -> VAngle(angle_to_rad(node.f, node.unit))
      [] node.k = "BoolLit" -> VBool(node.b)
      [] node.k = "StringLit" -> VString(node.str)

LiteralKinds ==
    {"IntLit", "FloatLit", "LengthLit", "AngleLit", "BoolLit", "StringLit"}

EvalLiteral ==
    /\ \E k \in LiteralKinds : Entering(k)
    /\ Leaf(Ok(literal_value(NodeAt(ctl.id))), env)
    /\ Static /\ UNCHANGED data_types

EvalIdent ==
    /\ Entering("Ident")
    /\ LET found == lookup(env, NodeAt(ctl.id).name)
       IN  Leaf(IF IsSome(found) THEN Ok(Unwrap(found))
                ELSE Err("UndefinedName", "undefined name", Some(ctl.id)),
                env)
    /\ Static /\ UNCHANGED data_types

\* IrParam -> FnParam { name, default }
fn_params(params) ==
    [i \in 1..Len(params) |->
        [name |-> params[i].name, default |-> params[i].default]]

\* The environment a Lambda / FnDef stores in the Function value.
closure_capture(e) == e

EvalLambda ==
    /\ Entering("Lambda")
    /\ LET node == NodeAt(ctl.id)
       IN  Leaf(Ok(VFunction(fn_params(node.params), node.body,
                             closure_capture(env))), env)
    /\ Static /\ UNCHANGED data_types

\* FnDef: the closure is built from self.env before the name is defined.
fndef_env(e, name, params, body) ==
    define(e, name, VFunction(params, body, closure_capture(e)))

EvalFnDef ==
    /\ Entering("FnDef")
    /\ LET node == NodeAt(ctl.id)
       IN  Leaf(Ok(VUnit),
                fndef_env(env, node.name, fn_params(node.params), node.body))
    /\ Static /\ UNCHANGED data_types

EvalDataDef ==
    /\ Entering("DataDef")
    /\ LET node == NodeAt(ctl.id)
           field_names == [i \in 1..Len(node.fields) |-> node.fields[i].name]
       IN  data_types' =
              [n \in (DOMAIN data_types) \cup {node.name} |->
                  IF n = node.name THEN field_names ELSE data_types[n]]
    /\ Leaf(Ok(VUnit), env)
    /\ Static

RECURSIVE define_variants(_, _, _, _)
define_variants(e, name, variants, i) ==
    IF i > Len(variants) THEN e
    ELSE define_variants(
             define(e, variants[i], VEnumVariant(name, variants[i])),
             name, variants, i + 1)

EvalEnumDef ==
    /\ Entering("EnumDef")
    /\ LET node == NodeAt(ctl.id)
       IN  Leaf(Ok(VUnit), define_variants(env, node.name, node.variants, 1))
    /\ Static /\ UNCHANGED data_types

\* ---- eval_node: BinOp, UnaryOp, Let ----

EnterBinOp ==
    /\ Entering("BinOp")
    /\ Push([k |-> "BinOpLhs", id |-> ctl.id, env0 |-> env, t0 |-> Len(trace)],
            EvalCtl(NodeAt(ctl.id).lhs))
    /\ Static /\ UNCHANGED <<env, data_types>>

\* The left operand returned, `&&` and `||` short-circuiting.
ContBinOpLhs_short_circuit ==
    /\ Returning("BinOpLhs")
    /\ IF ctl.r.ok
       THEN IF \/ NodeAt(Top.id).op = "And" /\ ctl.r.v = VBool(FALSE)
               \/ NodeAt(Top.id).op = "Or" /\ ctl.r.v = VBool(TRUE)
            THEN Ret(ctl.r, env)
            ELSE /\ Goto([k |-> "BinOpRhs", id |-> Top.id, env0 |-> Top.env0,
                          t0 |-> Top.t0, l |-> ctl.r.v],
                         EvalCtl(NodeAt(Top.id).rhs))
                 /\ UNCHANGED env
       ELSE Ret(ctl.r, env)
    /\ Static /\ UNCHANGED data_types

\* `let l = self.eval_node(lhs)?;`
ContBinOpLhs ==
    /\ Returning("BinOpLhs")
    /\ IF ctl.r.ok
       THEN /\ Goto([k |-> "BinOpRhs", id |-> Top.id, env0 |-> Top.env0, t0 |-> Top.t0,
                     l |-> ctl.r.v],
                    EvalCtl(NodeAt(Top.id).rhs))
            /\ UNCHANGED env
       ELSE Ret(ctl.r, env)
    /\ Static /\ UNCHANGED data_types

\* `let r = self.eval_node(rhs)?; self.eval_binop(l, op.node, r, span)`
ContBinOpRhs ==
    /\ Returning("BinOpRhs")
    /\ IF ctl.r.ok
       THEN RetArith(eval_binop(Top.l, NodeAt(Top.id).op, ctl.r.v, Top.id))
       ELSE Ret(ctl.r, env) /\ Static
    /\ UNCHANGED data_types

EnterUnaryOp ==
    /\ Entering("UnaryOp")
    /\ Push([k |-> "UnaryOperand", id |-> ctl.id, env0 |-> env, t0 |-> Len(trace)],
            EvalCtl(NodeAt(ctl.id).operand))
    /\ Static /\ UNCHANGED <<env, data_types>>

ContUnaryOperand ==
    /\ Returning("UnaryOperand")
    /\ IF ctl.r.ok
       THEN RetArith(eval_unaryop(NodeAt(Top.id).op, ctl.r.v, Top.id))
       ELSE Ret(ctl.r, env) /\ Static
    /\ UNCHANGED data_types

EnterLet ==
    /\ Entering("Let")
    /\ Push([k |-> "LetValue", id |-> ctl.id, env0 |-> env, t0 |-> Len(trace)],
            EvalCtl(NodeAt(ctl.id).value))
    /\ Static /\ UNCHANGED <<env, data_types>>

ContLetValue ==
    /\ Returning("LetValue")
    /\ IF ctl.r.ok
       THEN Ret(Ok(VUnit), define(env, NodeAt(Top.id).name, ctl.r.v))
       ELSE Ret(ctl.r, env)
    /\ Static /\ UNCHANGED data_types

\* ---- eval_node: Block ----

EnterBlock ==
    /\ Entering("Block")
    /\ env' = push_scope(env)
    /\ Push([k |-> "BlockLoop", id |-> ctl.id, env0 |-> env, t0 |-> Len(trace), i |-> 1],
            ContCtl)
    /\ Static /\ UNCHANGED data_types

\* Head of `for &stmt in &stmts`; after the loop, the tail.
BlockLoop ==
    /\ Looping("BlockLoop")
    /\ LET node == NodeAt(Top.id)
       IN  IF Top.i <= Len(node.stmts)
           THEN /\ Goto(Top, EvalCtl(node.stmts[Top.i]))
                /\ UNCHANGED env /\ Static
           ELSE IF IsSome(node.tail)
           THEN /\ Goto([k |-> "BlockTail", id |-> Top.id,
                         env0 |-> Top.env0, t0 |-> Top.t0],
                        EvalCtl(Unwrap(node.tail)))
                /\ UNCHANGED env /\ Static
           ELSE PopRet(Ok(VUnit))
    /\ UNCHANGED data_types

\* What a Block does with its environment when a statement fails:
\* `self.eval_node(stmt)?;` returns at once.
block_stmt_err_env(e) == e

\* `self.eval_node(stmt)?;`
ContBlockStmt ==
    /\ Returning("BlockLoop")
    /\ IF ctl.r.ok
       THEN /\ Goto([Top EXCEPT !.i = @ + 1], ContCtl)
            /\ UNCHANGED env
       ELSE Ret(ctl.r, block_stmt_err_env(env))
    /\ Static /\ UNCHANGED data_types

\* `let result = ...eval_node(t); self.env.pop_scope(); result`
ContBlockTail ==
    /\ Returning("BlockTail")
    /\ PopRet(ctl.r)
    /\ UNCHANGED data_types

\* ---- eval_node: If ----

EnterIf ==
    /\ Entering("If")
    /\ Push([k |-> "IfCond", id |-> ctl.id, env0 |-> env, t0 |-> Len(trace)],
            EvalCtl(NodeAt(ctl.id).cond))
    /\ Static /\ UNCHANGED <<env, data_types>>

ContIfCond ==
    /\ Returning("IfCond")
    /\ LET node == NodeAt(Top.id)
           branch == [k |-> "IfBranch", id |-> Top.id, env0 |-> Top.env0, t0 |-> Top.t0]
       IN  IF ~ctl.r.ok THEN Ret(ctl.r, env)
           ELSE IF ctl.r.v.t # "Bool"
           THEN Ret(Err("TypeError", "if condition must be Bool",
                        Some(Top.id)), env)
           ELSE IF ctl.r.v.b
           THEN Goto(branch, EvalCtl(node.then_branch)) /\ UNCHANGED env
           ELSE IF IsSome(node.else_branch)
           THEN Goto(branch, EvalCtl(Unwrap(node.else_branch)))
                /\ UNCHANGED env
           ELSE Ret(Ok(VUnit), env)
    /\ Static /\ UNCHANGED data_types

\* The branch's result is the If's result.
ContIfBranch ==
    /\ Returning("IfBranch")
    /\ Ret(ctl.r, env)
    /\ Static /\ UNCHANGED data_types

\* ---- eval_node: Match ----

EnterMatch ==
    /\ Entering("Match")
    /\ Push([k |-> "MatchSubject", id |-> ctl.id, env0 |-> env, t0 |-> Len(trace)],
            EvalCtl(NodeAt(ctl.id).subject))
    /\ Static /\ UNCHANGED <<env, data_types>>

\* `for arm in &arms { if let Some(bindings) = self.match_pattern(..) ..`:
\* the position and bindings of the arm the loop stops at, arm 0 if none.
RECURSIVE first_match(_, _, _, _)
first_match(e, arms, subj, i) ==
    IF i > Len(arms) THEN [arm |-> 0, bindings |-> <<>>]
    ELSE LET m == match_pattern(e, arms[i].pattern, subj)
         IN  IF IsSome(m) THEN [arm |-> i, bindings |-> Unwrap(m)]
             ELSE first_match(e, arms, subj, i + 1)

\* `for (name, val) in bindings { env.define(name, val) }`
RECURSIVE define_all(_, _, _)
define_all(e, bindings, i) ==
    IF i > Len(bindings) THEN e
    ELSE define_all(define(e, bindings[i][1], bindings[i][2]), bindings,
                    i + 1)

\* The environment the arm body runs in.
arm_env(e, bindings) == define_all(push_scope(e), bindings, 1)

ContMatchSubject ==
    /\ Returning("MatchSubject")
    /\ IF ~ctl.r.ok THEN Ret(ctl.r, env)
       ELSE LET node == NodeAt(Top.id)
                m == first_match(env, node.arms, ctl.r.v, 1)
            IN  IF m.arm = 0
                THEN Ret(Err("PatternMismatch", "no pattern matched",
                             Some(Top.id)), env)
                ELSE /\ env' = arm_env(env, m.bindings)
                     /\ Goto([k |-> "MatchBody", id |-> Top.id,
                              env0 |-> Top.env0, t0 |-> Top.t0, arm |-> m.arm,
                              subj |-> ctl.r.v],
                             EvalCtl(node.arms[m.arm].body))
    /\ Static /\ UNCHANGED data_types

\* `let result = self.eval_node(arm.body); self.env.pop_scope();
\*  return result;`
ContMatchBody ==
    /\ Returning("MatchBody")
    /\ PopRet(ctl.r)
    /\ UNCHANGED data_types

\* ---- eval_node: List, DataConstructor, FieldAccess, WithUpdate ----

EnterList ==
    /\ Entering("List")
    /\ Push([k |-> "ListLoop", id |-> ctl.id, env0 |-> env, t0 |-> Len(trace), i |-> 1,
             acc |-> <<>>], ContCtl)
    /\ Static /\ UNCHANGED <<env, data_types>>

ListLoop ==
    /\ Looping("ListLoop")
    /\ LET node == NodeAt(Top.id)
       IN  IF Top.i <= Len(node.elems)
           THEN Goto(Top, EvalCtl(node.elems[Top.i])) /\ UNCHANGED env
           ELSE Ret(Ok(VList(Top.acc)), env)
    /\ Static /\ UNCHANGED data_types

ContListElem ==
    /\ Returning("ListLoop")
    /\ IF ctl.r.ok
       THEN /\ Goto([Top EXCEPT !.i = @ + 1, !.acc = Append(@, ctl.r.v)],
                    ContCtl)
            /\ UNCHANGED env
       ELSE Ret(ctl.r, env)
    /\ Static /\ UNCHANGED data_types

EnterDataConstructor ==
    /\ Entering("DataConstructor")
    /\ Push([k |-> "CtorLoop", id |-> ctl.id, env0 |-> env, t0 |-> Len(trace), i |-> 1,
             acc |-> <<>>], ContCtl)
    /\ Static /\ UNCHANGED <<env, data_types>>

CtorLoop ==
    /\ Looping("CtorLoop")
    /\ LET node == NodeAt(Top.id)
       IN  IF Top.i <= Len(node.fields)
           THEN Goto(Top, EvalCtl(node.fields[Top.i].value))
                /\ UNCHANGED env
           ELSE Ret(Ok(VData(node.name, Top.acc)), env)
    /\ Static /\ UNCHANGED data_types

ContCtorField ==
    /\ Returning("CtorLoop")
    /\ IF ctl.r.ok
       THEN /\ Goto([Top EXCEPT
                       !.i = @ + 1,
                       !.acc = Append(@, <<NodeAt(Top.id).fields[Top.i].name,
                                           ctl.r.v>>)],
                    ContCtl)
            /\ UNCHANGED env
       ELSE Ret(ctl.r, env)
    /\ Static /\ UNCHANGED data_types

\* fields.iter().position(|(n, _)| *n == name): 0 when absent.
RECURSIVE field_index(_, _, _)
field_index(fields, name, i) ==
    IF i > Len(fields) THEN 0
    ELSE IF fields[i][1] = name THEN i
    ELSE field_index(fields, name, i + 1)

EnterFieldAccess ==
    /\ Entering("FieldAccess")
    /\ Push([k |-> "FieldObject", id |-> ctl.id, env0 |-> env, t0 |-> Len(trace)],
            EvalCtl(NodeAt(ctl.id).object))
    /\ Static /\ UNCHANGED <<env, data_types>>

field_access(obj, field, span) ==
    IF obj.t = "Data"
    THEN LET i == field_index(obj.fields, field, 1)
         IN  IF i = 0 THEN Err("FieldNotFound", "field not found", Some(span))
             ELSE Ok(obj.fields[i][2])
    ELSE Err("TypeError", "field access on non-data type", Some(span))

ContFieldObject ==
    /\ Returning("FieldObject")
    /\ IF ctl.r.ok
       THEN Ret(field_access(ctl.r.v, NodeAt(Top.id).field, Top.id), env)
       ELSE Ret(ctl.r, env)
    /\ Static /\ UNCHANGED data_types

EnterWithUpdate ==
    /\ Entering("WithUpdate")
    /\ Push([k |-> "WithBase", id |-> ctl.id, env0 |-> env, t0 |-> Len(trace)],
            EvalCtl(NodeAt(ctl.id).base))
    /\ Static /\ UNCHANGED <<env, data_types>>

\* `let base_val = self.eval_node(base)?; match base_val { Data{..} => ..`
ContWithBase ==
    /\ Returning("WithBase")
    /\ IF ~ctl.r.ok THEN Ret(ctl.r, env)
       ELSE IF ctl.r.v.t # "Data"
       THEN Ret(Err("TypeError", "with-update on non-data type",
                    Some(Top.id)), env)
       ELSE /\ Goto([k |-> "WithLoop", id |-> Top.id, env0 |-> Top.env0, t0 |-> Top.t0,
                     base |-> ctl.r.v, type_name |-> ctl.r.v.type_name,
                     fields |-> ctl.r.v.fields, i |-> 1, vals |-> <<>>],
                    ContCtl)
            /\ UNCHANGED env
    /\ Static /\ UNCHANGED data_types

\* Head of `for upd in &updates`; after the loop, Ok(Data{..}).
WithLoop ==
    /\ Looping("WithLoop")
    /\ LET node == NodeAt(Top.id)
       IN  IF Top.i <= Len(node.updates)
           THEN Goto(Top, EvalCtl(node.updates[Top.i].value))
                /\ UNCHANGED env
           ELSE Ret(Ok(VData(Top.type_name, Top.fields)), env)
    /\ Static /\ UNCHANGED data_types

\* The update lands in the first field whatever its name.
with_overwrite_first(fields, i, val) == [fields EXCEPT ![1] = <<@[1], val>>]

\* `if let Some(entry) = fields.iter_mut().find(..) { entry.1 = val }`
with_overwrite(fields, i, val) == [fields EXCEPT ![i] = <<@[1], val>>]

\* `let val = self.eval_node(upd.value)?;` then overwrite or FieldNotFound.
ContWithUpd ==
    /\ Returning("WithLoop")
    /\ IF ~ctl.r.ok THEN Ret(ctl.r, env)
       ELSE LET upd == NodeAt(Top.id).updates[Top.i]
                j == field_index(Top.fields, upd.name, 1)
            IN  IF j = 0
                THEN Ret(Err("FieldNotFound", "field not found in type",
                             Some(Top.id)), env)
                ELSE /\ Goto([Top EXCEPT
                                !.i = @ + 1,
                                !.fields = with_overwrite(@, j, ctl.r.v),
                                !.vals = Append(@, ctl.r.v)],
                             ContCtl)
                     /\ UNCHANGED env
    /\ Static /\ UNCHANGED data_types

\* ---- eval_node: FnCall (eval_call, resolve_args, call_value) ----

EnterFnCall ==
    /\ Entering("FnCall")
    /\ Push([k |-> "CallFunc", id |-> ctl.id, env0 |-> env, t0 |-> Len(trace)],
            EvalCtl(NodeAt(ctl.id).func))
    /\ Static /\ UNCHANGED <<env, data_types>>

\* `let func_val = self.eval_node(func)?;` then eval_call's match.
ContCallFunc ==
    /\ Returning("CallFunc")
    /\ IF ~ctl.r.ok THEN Ret(ctl.r, env)
       ELSE IF ctl.r.v.t = "BuiltinFn"
       THEN /\ Goto([k |-> "BuiltinArgs", id |-> Top.id, env0 |-> Top.env0, t0 |-> Top.t0,
                     name |-> ctl.r.v.name, i |-> 1, acc |-> <<>>],
                    ContCtl)
            /\ UNCHANGED env
       ELSE IF ctl.r.v.t = "Function"
       THEN /\ Goto([k |-> "ResolveArgs", id |-> Top.id, env0 |-> Top.env0, t0 |-> Top.t0,
                     fn |-> ctl.r.v, i |-> 1, positional_idx |-> 0,
                     slot |-> 0,
                     result |-> [j \in 1..Len(ctl.r.v.params) |-> None],
                     argvals |-> <<>>],
                    ContCtl)
            /\ UNCHANGED env
       ELSE Ret(Err("NotCallable", "cannot call value", Some(Top.id)), env)
    /\ Static /\ UNCHANGED data_types

\* The map builtin, up to its loop: the arity and List checks.
map_check(args) ==
    IF IsSome(check_arity("map", args, 2))
    THEN check_arity("map", args, 2)
    ELSE IF args[2].t # "List"
    THEN Some(Err("TypeError",
                  "map expects List as second argument, got "
                      \o type_name(args[2]), None))
    ELSE None

\* A builtin run on evaluated arguments without re-entering the evaluator
\* (map only when its arity or List check rejects the arguments).
builtin_direct(name, args) ==
    IF name = "map" THEN Unwrap(map_check(args))
    ELSE builtin_apply(name, args)

\* `func(&args, self).map_err(..)` for a result r.
builtin_result(r, name, span) ==
    IF r.ok THEN r ELSE builtin_map_err(r, name, span)

\* eval_args_positional: head of the loop over the arguments; after the
\* loop, the builtin runs.
BuiltinArgsLoop ==
    /\ Looping("BuiltinArgs")
    /\ LET node == NodeAt(Top.id)
       IN  IF Top.i <= Len(node.args)
           THEN Goto(Top, EvalCtl(node.args[Top.i].value))
           ELSE IF Top.name = "map" /\ ~IsSome(map_check(Top.acc))
           THEN Goto([k |-> "MapLoop", id |-> Top.id, env0 |-> Top.env0, t0 |-> Top.t0,
                      name |-> Top.name, func |-> Top.acc[1],
                      items |-> Top.acc[2].items, i |-> 1, acc |-> <<>>,
                      saved_env |-> env],
                     ContCtl)
           ELSE Goto([k |-> "BuiltinDone", id |-> Top.id, env0 |-> Top.env0, t0 |-> Top.t0,
                      name |-> Top.name, args |-> Top.acc],
                     RetCtl(builtin_direct(Top.name, Top.acc)))
    /\ Static /\ UNCHANGED <<env, data_types>>

\* `.map(|arg| self.eval_node(arg.value)).collect()` and the `?` after it.
ContBuiltinArg ==
    /\ Returning("BuiltinArgs")
    /\ IF ctl.r.ok
       THEN /\ Goto([Top EXCEPT !.i = @ + 1, !.acc = Append(@, ctl.r.v)],
                    ContCtl)
            /\ UNCHANGED env
       ELSE Ret(ctl.r, env)
    /\ Static /\ UNCHANGED data_types

\* The builtin returned: map_err decorates an error; eval_call returns.
ContBuiltinDone ==
    /\ Returning("BuiltinDone")
    /\ Ret(builtin_result(ctl.r, Top.name, Top.id), env)
    /\ Static /\ UNCHANGED data_types

\* `for (param, arg) in params.iter().zip(args.iter()) { define(..) }`
RECURSIVE bind_params(_, _, _, _)
bind_params(e, params, args, i) ==
    IF i > Len(params) \/ i > Len(args) THEN e
    ELSE bind_params(define(e, params[i].name, args[i]), params, args, i + 1)

\* call_base with dynamic scoping: the call starts from the caller's
\* environment.
call_base_dynamic(closure_env, caller_env) == caller_env

\* The environment a call starts from: the function's captured one.
call_base(closure_env, caller_env) == closure_env

\* call_env: a fresh scope on the captured environment, parameters bound.
call_env(closure_env, caller_env, params, args) ==
    bind_params(push_scope(call_base(closure_env, caller_env)), params,
                args, 1)

\* restore_env that leaves the environment of the body in place.
restore_env_keeping_body(saved_env, body_env) == body_env

\* `self.env = saved_env;`
restore_env(saved_env, body_env) == saved_env

\* map: head of `list.into_iter().map(|item| ctx.call_value(..))`.
MapLoop ==
    /\ Looping("MapLoop")
    /\ IF Top.i > Len(Top.items)
       THEN Goto([k |-> "BuiltinDone", id |-> Top.id, env0 |-> Top.env0, t0 |-> Top.t0,
                  name |-> Top.name, args |-> <<Top.func, VList(Top.items)>>],
                 RetCtl(Ok(VList(Top.acc))))
            /\ UNCHANGED env
       ELSE LET item == Top.items[Top.i]
                func == Top.func
            IN  IF func.t = "Function"
                THEN /\ env' = call_env(func.closure_env, env, func.params,
                                        <<item>>)
                     /\ Goto([Top EXCEPT !.saved_env = env],
                             EvalCtl(func.body))
                ELSE /\ Goto(Top,
                             RetCtl(IF func.t = "BuiltinFn"
                                    THEN builtin_direct(func.name, <<item>>)
                                    ELSE Err("NotCallable",
                                             "cannot call value", None)))
                     /\ UNCHANGED env
    /\ Static /\ UNCHANGED data_types

\* call_value returned to map: restore the environment; collect or `?`.
ContMapItem ==
    /\ Returning("MapLoop")
    /\ LET back == IF Top.func.t = "Function"
                   THEN restore_env(Top.saved_env, env) ELSE env
       IN  /\ env' = back
           /\ IF ctl.r.ok
              THEN Goto([Top EXCEPT !.i = @ + 1,
                                    !.acc = Append(@, ctl.r.v)],
                        ContCtl)
              ELSE Goto([k |-> "BuiltinDone", id |-> Top.id,
                         env0 |-> Top.env0, t0 |-> Top.t0, name |-> Top.name,
                         args |-> <<Top.func, VList(Top.items)>>],
                        ctl)
    /\ Static /\ UNCHANGED data_types

\* params.iter().position(|p| p.name == name): 0 when absent.
RECURSIVE param_index(_, _, _)
param_index(params, name, i) ==
    IF i > Len(params) THEN 0
    ELSE IF params[i].name = name THEN i
    ELSE param_index(params, name, i + 1)

\* Spans are stood for by node ids; the span of the name that labels the
\* argument whose value is node value_id is stood for by a negative number.
name_span(value_id) == 0 - (value_id + 1)

\* The positional bound off by one.
too_many_positional_off_by_one(positional_idx, params) ==
    positional_idx > Len(params)

\* The positional bound of resolve_args' first pass.
too_many_positional(positional_idx, params) == positional_idx >= Len(params)

\* resolve_args, first pass: head of `for arg in ir_args`.
ResolveArgsLoop ==
    /\ Looping("ResolveArgs")
    /\ LET node == NodeAt(Top.id)
           params == Top.fn.params
       IN  IF Top.i > Len(node.args)
           THEN Goto([Top EXCEPT !.k = "ResolveDefaults", !.i = 1], ContCtl)
                /\ UNCHANGED env
           ELSE LET arg == node.args[Top.i]
                IN  IF IsSome(arg.name)
                    THEN LET idx == param_index(params, Unwrap(arg.name), 1)
                         IN  IF idx = 0
                             THEN Ret(Err("ArityMismatch",
                                          "unknown parameter '"
                                              \o Unwrap(arg.name) \o "'",
                                          Some(name_span(arg.value))), env)
                             ELSE Goto([Top EXCEPT !.slot = idx],
                                       EvalCtl(arg.value))
                                  /\ UNCHANGED env
                    ELSE IF too_many_positional(Top.positional_idx, params)
                    THEN Ret(Err("ArityMismatch", "too many arguments",
                                 Some(Top.id)), env)
                    ELSE Goto([Top EXCEPT !.slot = Top.positional_idx + 1],
                              EvalCtl(arg.value))
                         /\ UNCHANGED env
    /\ Static /\ UNCHANGED data_types

\* `let val = self.eval_node(arg.value)?; result[idx] = Some(val);`
ContResolveArg ==
    /\ Returning("ResolveArgs")
    /\ IF ctl.r.ok
       THEN /\ Goto([Top EXCEPT
                       !.result = [@ EXCEPT ![Top.slot] = Some(ctl.r.v)],
                       !.positional_idx =
                           IF IsSome(NodeAt(Top.id).args[Top.i].name)
                           THEN @ ELSE @ + 1,
                       !.argvals = Append(@, ctl.r.v),
                       !.i = @ + 1],
                    ContCtl)
            /\ UNCHANGED env
       ELSE Ret(ctl.r, env)
    /\ Static /\ UNCHANGED data_types

\* The second pass with a default evaluated in the closure environment.
ResolveDefaultsLoop_in_closure_env ==
    /\ Looping("ResolveDefaults")
    /\ LET params == Top.fn.params
       IN  IF Top.i > Len(params)
           THEN LET args == [j \in 1..Len(params) |-> Unwrap(Top.result[j])]
                IN  /\ env' = call_env(Top.fn.closure_env, env, params, args)
                    /\ Goto([k |-> "CallBody", id |-> Top.id,
                             env0 |-> Top.env0, t0 |-> Top.t0, fn |-> Top.fn,
                             args |-> args, argvals |-> Top.argvals,
                             saved_env |-> env],
                            EvalCtl(Top.fn.body))
           ELSE IF IsSome(Top.result[Top.i])
           THEN Goto([Top EXCEPT !.i = @ + 1], ContCtl) /\ UNCHANGED env
           ELSE IF IsSome(params[Top.i].default)
           THEN Goto(Top, EvalCtl(Unwrap(params[Top.i].default)))
                /\ env' = Top.fn.closure_env
           ELSE Ret(Err("ArityMismatch",
                        "missing argument '" \o params[Top.i].name \o "'",
                        Some(Top.id)), env)
    /\ Static /\ UNCHANGED data_types

\* resolve_args, second pass: head of `for (i, param) in params`; after
\* the loop eval_call binds the parameters and runs the body.
ResolveDefaultsLoop ==
    /\ Looping("ResolveDefaults")
    /\ LET params == Top.fn.params
       IN  IF Top.i > Len(params)
           THEN LET args == [j \in 1..Len(params) |-> Unwrap(Top.result[j])]
                IN  /\ env' = call_env(Top.fn.closure_env, env, params, args)
                    /\ Goto([k |-> "CallBody", id |-> Top.id,
                             env0 |-> Top.env0, t0 |-> Top.t0, fn |-> Top.fn,
                             args |-> args, argvals |-> Top.argvals,
                             saved_env |-> env],
                            EvalCtl(Top.fn.body))
           ELSE IF IsSome(Top.result[Top.i])
           THEN Goto([Top EXCEPT !.i = @ + 1], ContCtl) /\ UNCHANGED env
           ELSE IF IsSome(params[Top.i].default)
           THEN Goto(Top, EvalCtl(Unwrap(params[Top.i].default)))
                /\ UNCHANGED env
           ELSE Ret(Err("ArityMismatch",
                        "missing argument '" \o params[Top.i].name \o "'",
                        Some(Top.id)), env)
    /\ Static /\ UNCHANGED data_types

\* `let val = self.eval_node(default_node)?; result[i] = Some(val);`
ContResolveDefault ==
    /\ Returning("ResolveDefaults")
    /\ IF ctl.r.ok
       THEN /\ Goto([Top EXCEPT
                       !.result = [@ EXCEPT ![Top.i] = Some(ctl.r.v)],
                       !.i = @ + 1],
                    ContCtl)
            /\ UNCHANGED env
       ELSE Ret(ctl.r, env)
    /\ Static /\ UNCHANGED data_types

\* `let result = self.eval_node(body); self.env = saved_env; result`
ContCallBody ==
    /\ Returning("CallBody")
    /\ Ret(ctl.r, restore_env(Top.saved_env, env))
    /\ Static /\ UNCHANGED data_types

\* ------------------------------------------------------------------------
\* The programs the pipeline is run on: source files as the parser builds
\* them, drawn from families with bounded holes.
\* ------------------------------------------------------------------------
MaxInt == 2

MaxRoots == 3

MaxBlockStmts == 2

MaxArgs == 2

MaxArms == 2

MaxUpdates == 2

SeqsUpTo(S, n) == UNION {[1..len -> S] : len \in 0..n}

\* `{ e }`
Blk(e) == Block(<<>>, Some(e))

\* `f(e1, ..)` with positional arguments only
Call(name, exprs) ==
    FnCall(Ident(name), [i \in 1..Len(exprs) |-> Pos(exprs[i])])

\* ---- top-level statement sequences ----
RootChoices ==
    { Let("x", Num(1)),
      ExprStmt(Ident("x")),
      ExprStmt(Ident("nope")),
      ExprStmt(Num(2)) }

RootPrograms == SeqsUpTo(RootChoices, MaxRoots)

\* ---- blocks: `let x = 1` then a block, then a probe of x or y ----
BlockStmtChoices ==
    { Let("x", Num(2)),
      Let("y", Num(2)),
      ExprStmt(Ident("nope")),
      ExprStmt(Block(<<Let("x", Num(0))>>, None)) }

BlockTailChoices == {None, Some(Ident("x")), Some(Ident("y"))}

BlockExprs ==
    { Block(stmts, tail) : stmts \in SeqsUpTo(BlockStmtChoices, MaxBlockStmts),
                           tail \in BlockTailChoices }

BlockPrograms ==
    { <<Let("x", Num(1)), ExprStmt(b), ExprStmt(Ident(probe))>> :
          b \in BlockExprs, probe \in {"x", "y"} }
    \cup
    { <<Let("x", Num(1)), ExprStmt(List(<<b, Ident(probe)>>))>> :
          b \in BlockExprs, probe \in {"x", "y"} }

\* ---- functions and closures ----
\* `let a = 1`, a function f(p) defined by fn or as a lambda, `let a = 10`,
\* a call of f from the top level, from a block with a local b, or
\* through map, and a probe of a or q.
FnBodyStmtChoices ==
    { <<>>,
      <<Let("a", Num(5))>>,
      <<Let("q", Ident("p"))>>,
      <<ExprStmt(Ident("nope"))>> }

FnBodyTailChoices ==
    { BinOp(Ident("a"), "Add", Ident("p")),
      Ident("b"),
      Ident("f"),
      Ident("q"),
      Ident("p") }

FnBodies ==
    { Block(stmts, Some(tail)) :
          stmts \in FnBodyStmtChoices, tail \in FnBodyTailChoices }

FnDefinitions(body) ==
    { FnDef("f", <<Param("p", None)>>, body),
      Let("f", Lambda(<<Param("p", None)>>, body)) }

FnCallSites ==
    { Call("f", <<Num(2)>>),
      Block(<<Let("b", Num(3))>>, Some(Call("f", <<Num(2)>>))),
      Call("map", <<Ident("f"), List(<<Num(1), Num(2)>>)>>) }

ClosurePrograms ==
    { <<Let("a", Num(1)), def, Let("a", Num(10)),
        ExprStmt(List(<<site, Ident(probe)>>))>> :
          def \in UNION {FnDefinitions(body) : body \in FnBodies},
          site \in FnCallSites, probe \in {"a", "q"} }

\* ---- argument resolution: `fn f(params) { [a, b] }` and a call ----
ParamLists ==
    { <<>>,
      <<Param("a", None)>>,
      <<Param("a", None), Param("b", None)>>,
      <<Param("a", None), Param("b", Some(Num(9)))>>,
      <<Param("a", Some(Num(8))), Param("b", Some(Num(9)))>>,
      <<Param("a", Some(Num(8))), Param("b", None)>> }

ArgChoices ==
    { Pos(Num(1)),
      Pos(Num(2)),
      Named("a", Num(3)),
      Named("b", Num(4)),
      Named("z", Num(5)),
      Pos(Ident("nope")) }

ArgPrograms ==
    { <<FnDef("f", params,
              Blk(List([i \in 1..Len(params) |-> Ident(params[i].name)]))),
        ExprStmt(FnCall(Ident("f"), args))>> :
          params \in ParamLists, args \in SeqsUpTo(ArgChoices, MaxArgs) }

\* ---- binary operators on literal operands ----
Operands ==
    { Num(n) : n \in 0..MaxInt }
    \cup
    { FloatLit(<<0, 1>>), FloatLit(<<5, 2>>),
      LengthLit(<<0, 1>>, "Mm"), LengthLit(<<10, 1>>, "Mm"),
      LengthLit(<<1, 1>>, "Cm"),
      AngleLit(<<90, 1>>, "Deg"),
      BoolLit(TRUE), BoolLit(FALSE),
      StringLit("a"), StringLit("b") }

BinOpKinds ==
    {"Add", "Sub", "Mul", "Div", "Eq", "Neq", "Lt", "Leq", "Gt", "Geq",
     "And", "Or"}

BinOpPrograms ==
    { <<ExprStmt(BinOp(a, op, b))>> :
          a \in Operands, op \in BinOpKinds, b \in Operands }

\* ---- equality on the other kinds of value ----
EqOperands ==
    { Num(1),
      List(<<Num(1)>>),
      List(<<Num(2)>>),
      List(<<>>),
      DataConstructor("P", <<FieldInit("x", Num(1))>>),
      DataConstructor("P", <<FieldInit("x", Num(2))>>),
      Lambda(<<Param("v", None)>>, Ident("v")),
      Ident("map"),
      Ident("TAP"),
      Ident("CLEARANCE"),
      Block(<<>>, None),
      Call("vec3", <<Num(1), Num(2), Num(3)>>),
      Call("sphere", <<Num(1)>>) }

EqPrograms ==
    { <<ExprStmt(BinOp(a, op, b))>> :
          a \in EqOperands, op \in {"Eq", "Neq"}, b \in EqOperands }

\* ---- match ----
MatchSubjects == {Num(1), Num(2), BoolLit(TRUE), Ident("nope")}

ArmChoices ==
    { MatchArm(PLiteral(Num(1)), Num(10)),
      MatchArm(PLiteral(Num(2)), Ident("n")),
      MatchArm(PLiteral(BoolLit(TRUE)), Ident("nope")),
      MatchArm(PIdent("n"), BinOp(Ident("n"), "Add", Num(1))),
      MatchArm(PIdent("n"),
               Block(<<ExprStmt(Ident("nope"))>>, Some(Ident("n")))),
      MatchArm(PWildcard, Blk(Num(0))) }

MatchPrograms ==
    { <<Let("n", Num(7)), ExprStmt(Match(subject, arms))>> :
          subject \in MatchSubjects, arms \in SeqsUpTo(ArmChoices, MaxArms) }

\* ---- with-update ----
WithRecords ==
    { DataConstructor("P", <<FieldInit("x", Num(1)),
                             FieldInit("y", Num(2))>>),
      DataConstructor("P", <<FieldInit("x", Num(1)),
                             FieldInit("x", Num(2))>>) }

WithBases == {Ident("p"), Num(1), Ident("nope")}

UpdChoices ==
    { FieldInit("x", Num(5)),
      FieldInit("y", Num(6)),
      FieldInit("z", Num(7)),
      FieldInit("x", Ident("nope")),
      FieldInit("x", Block(<<Let("p", Num(1)), ExprStmt(Ident("nope"))>>,
                           None)),
      FieldInit("y", Ident("p")) }

WithPrograms ==
    { <<Let("p", rec), ExprStmt(WithUpdate(base, updates))>> :
          rec \in WithRecords, base \in WithBases,
          updates \in SeqsUpTo(UpdChoices, MaxUpdates) }

\* ---- the pipe operator in every place an expression can stand ----
PipeExprs ==
    { BinOp(Num(1), "Pipe", Ident("g")),
      BinOp(Num(1), "Pipe", Call("f", <<Num(2)>>)),
      BinOp(Num(1), "Pipe", FnCall(Ident("f"), <<Named("b", Num(2))>>)),
      BinOp(BinOp(Num(1), "Pipe", Ident("g")), "Pipe", Ident("g")),
      BinOp(Num(1), "Pipe", Grouped(Call("f", <<Num(2)>>))),
      BinOp(Num(1), "Pipe",
            Grouped(BinOp(Ident("g"), "Pipe", Ident("g")))),
      BinOp(BinOp(Num(1), "Add", Num(1)), "Pipe",
            Lambda(<<Param("v", None)>>,
                   BinOp(Ident("v"), "Pipe", Ident("g")))),
      BinOp(BinOp(Num(1), "Pipe", Ident("g")), "Pipe",
            Call("f", <<BinOp(Num(2), "Pipe", Ident("g"))>>)) }

PipeContexts(e) ==
    { <<ExprStmt(e)>>,
      <<Let("r", e)>>,
      <<FnDef("h", <<Param("v", Some(e))>>, Blk(e)), ExprStmt(Call("h", <<>>))>>,
      <<DataDef("D", <<[name |-> "x", default |-> Some(e)]>>)>>,
      <<ExprStmt(FnCall(Lambda(<<>>, e), <<>>))>>,
      <<ExprStmt(List(<<e, e>>))>>,
      <<ExprStmt(Call("g", <<e>>))>>,
      <<ExprStmt(FnCall(Ident("f"), <<Named("a", e)>>))>>,
      <<ExprStmt(FieldAccess(Grouped(e), "x"))>>,
      <<ExprStmt(If(BinOp(e, "Eq", Num(1)), Blk(e), Some(Blk(e))))>>,
      <<ExprStmt(If(BinOp(Num(0), "Lt", e), Blk(e),
                    Some(If(BoolLit(TRUE), Blk(e), None))))>>,
      <<ExprStmt(Match(e, <<MatchArm(PWildcard, e)>>))>>,
      <<ExprStmt(DataConstructor("P", <<FieldInit("x", e)>>))>>,
      <<ExprStmt(WithUpdate(DataConstructor("P", <<FieldInit("x", e)>>),
                            <<FieldInit("x", e)>>))>>,
      <<ExprStmt(Block(<<ExprStmt(e), Let("r", e)>>, Some(e)))>>,
      <<ExprStmt(UnaryOp("Neg", Grouped(e)))>>,
      <<ExprStmt(BinOp(Grouped(e), "Mul", Grouped(e)))>> }

PipePrograms ==
    { <<FnDef("f", <<Param("a", None), Param("b", Some(Num(0)))>>,
              Blk(BinOp(Ident("a"), "Add", Ident("b")))),
        FnDef("g", <<Param("a", None)>>, Blk(Ident("a")))>> \o rest :
          rest \in UNION {PipeContexts(e) : e \in PipeExprs} }

\* ---- pipes written out as the calls they stand for ----
RECURSIVE Unpiped(_)
RECURSIVE UnpipedStmt(_)

UnpipedOpt(opt) == IF IsSome(opt) THEN Some(Unpiped(Unwrap(opt))) ELSE None

\* `a |> f(b, c)` is f(a, b, c) and `a |> f` is f(a); everything else is
\* kept, with the pipes inside it written out as well.
Unpiped(x) ==
    CASE x.e = "BinOp" ->
            IF x.op # "Pipe"
            THEN BinOp(Unpiped(x.lhs), x.op, Unpiped(x.rhs))
            ELSE IF x.rhs.e = "FnCall"
            THEN FnCall(Unpiped(x.rhs.func),
                        <<Pos(Unpiped(x.lhs))>> \o
                        [i \in 1..Len(x.rhs.args) |->
                            Arg(x.rhs.args[i].name,
                                Unpiped(x.rhs.args[i].value))])
            ELSE FnCall(Unpiped(x.rhs), <<Pos(Unpiped(x.lhs))>>)
      [] x.e = "UnaryOp" -> UnaryOp(x.op, Unpiped(x.operand))
      [] x.e = "FnCall" ->
            FnCall(Unpiped(x.func),
                   [i \in 1..Len(x.args) |->
                       Arg(x.args[i].name, Unpiped(x.args[i].value))])
      [] x.e = "FieldAccess" -> FieldAccess(Unpiped(x.object), x.field)
      [] x.e = "Lambda" ->
            Lambda([i \in 1..Len(x.params) |->
                       Param(x.params[i].name,
                             UnpipedOpt(x.params[i].default))],
                   Unpiped(x.body))
      [] x.e = "List" ->
            List([i \in 1..Len(x.elems) |-> Unpiped(x.elems[i])])
      [] x.e = "If" ->
            If(Unpiped(x.cond), Unpiped(x.then_branch),
               UnpipedOpt(x.else_branch))
      [] x.e = "Match" ->
            Match(Unpiped(x.subject),
                  [i \in 1..Len(x.arms) |->
                      MatchArm(x.arms[i].pattern, Unpiped(x.arms[i].body))])
      [] x.e = "DataConstructor" ->
            DataConstructor(x.name,
                [i \in 1..Len(x.fields) |->
                    FieldInit(x.fields[i].name, Unpiped(x.fields[i].value))])
      [] x.e = "WithUpdate" ->
            WithUpdate(Unpiped(x.base),
                [i \in 1..Len(x.updates) |->
                    FieldInit(x.updates[i].name,
                              Unpiped(x.updates[i].value))])
      [] x.e = "Block" ->
            Block([i \in 1..Len(x.stmts) |-> UnpipedStmt(x.stmts[i])],
                  UnpipedOpt(x.tail))
      [] x.e = "Grouped" -> Grouped(Unpiped(x.inner))
      [] OTHER -> x

UnpipedStmt(st) ==
    CASE st.s = "Let" -> Let(st.name, Unpiped(st.value))
      [] st.s = "FnDef" ->
            FnDef(st.name,
                  [i \in 1..Len(st.params) |->
                      Param(st.params[i].name,
                            UnpipedOpt(st.params[i].default))],
                  Unpiped(st.body))
      [] st.s = "DataDef" ->
            DataDef(st.name,
                    [i \in 1..Len(st.fields) |->
                        [name |-> st.fields[i].name,
                         default |-> UnpipedOpt(st.fields[i].default)]])
      [] st.s = "EnumDef" -> st
      [] st.s = "Expr" -> ExprStmt(Unpiped(st.expr))

UnpipedProgram(stmts) == [i \in 1..Len(stmts) |-> UnpipedStmt(stmts[i])]

\* A pipe and the call it stands for, evaluated side by side.
PipeEquivPrograms ==
    { <<FnDef("f", <<Param("a", None), Param("b", Some(Num(0)))>>,
              Blk(BinOp(Ident("a"), "Add", Ident("b")))),
        FnDef("g", <<Param("a", None)>>, Blk(Ident("a"))),
        ExprStmt(List(<<e, Unpiped(e)>>))>> : e \in PipeExprs }

\* ---- functions handed to functions ----
\* `let w = |f| f(f)` with `w(w)`: w applied to itself
SelfApplication ==
    <<Let("w", Lambda(<<Param("f", None)>>,
                      FnCall(Ident("f"), <<Pos(Ident("f"))>>))),
      ExprStmt(Call("w", <<Ident("w")>>))>>

\* `let s = |f, n| if n == 0 { 0 } else { f(f, n - 1) }` with `s(s, k)`
Countdown(k) ==
    <<Let("s", Lambda(<<Param("f", None), Param("n", None)>>,
                      If(BinOp(Ident("n"), "Eq", Num(0)),
                         Blk(Num(0)),
                         Some(Blk(FnCall(Ident("f"),
                             <<Pos(Ident("f")),
                               Pos(BinOp(Ident("n"), "Sub", Num(1)))>>)))))),
      ExprStmt(Call("s", <<Ident("s"), Num(k)>>))>>

RecursionPrograms ==
    { SelfApplication, Countdown(0), Countdown(1), Countdown(2),
      \* `fn r(a) { r(a) }` does not see itself
      <<FnDef("r", <<Param("a", None)>>, Blk(Call("r", <<Ident("a")>>))),
        ExprStmt(Call("r", <<Num(1)>>))>>,
      \* a second r sees the first
      <<FnDef("r", <<Param("a", None)>>, Blk(Ident("a"))),
        FnDef("r", <<Param("a", None)>>, Blk(Call("r", <<Ident("a")>>))),
        ExprStmt(Call("r", <<Num(1)>>))>>,
      \* a default that lies after the call that evaluates it
      <<Let("g", Lambda(<<Param("h", None)>>, FnCall(Ident("h"), <<>>))),
        Let("k", Lambda(<<Param("a", Some(Num(1)))>>, Ident("a"))),
        ExprStmt(Call("g", <<Ident("k")>>))>>,
      <<Let("w", Lambda(<<Param("f", None)>>, Ident("f"))),
        ExprStmt(Call("w", <<Ident("w")>>))>>,
      <<Let("w", Lambda(<<Param("f", None)>>,
                        FnCall(Ident("f"), <<Pos(Ident("f"))>>))),
        ExprStmt(Call("map", <<Ident("w"), List(<<Ident("w")>>)>>))>> }

\* ---- arithmetic at the ends of i64 ----
\* `hi` is i64::MAX and `lo` is i64::MIN, which has no literal.
OverflowExprs ==
    LET hi == Ident("hi")
        lo == Ident("lo")
        m1 == UnaryOp("Neg", Num(1))
    IN  { BinOp(lo, "Div", m1), BinOp(hi, "Div", m1), BinOp(lo, "Div", Num(1)),
          BinOp(lo, "Div", lo), BinOp(hi, "Div", lo), BinOp(lo, "Div", hi),
          BinOp(lo, "Div", Num(0)),
          UnaryOp("Neg", lo), UnaryOp("Neg", hi),
          BinOp(hi, "Add", Num(1)), BinOp(hi, "Add", lo),
          BinOp(lo, "Add", lo), BinOp(hi, "Add", hi),
          BinOp(lo, "Sub", Num(1)), BinOp(hi, "Sub", lo),
          BinOp(lo, "Sub", lo), BinOp(Num(0), "Sub", lo),
          BinOp(hi, "Mul", Num(2)), BinOp(hi, "Mul", hi),
          BinOp(lo, "Mul", m1), BinOp(lo, "Mul", lo),
          BinOp(hi, "Mul", Num(1)), BinOp(lo, "Mul", Num(0)),
          BinOp(lo, "Lt", hi), BinOp(lo, "Eq", UnaryOp("Neg", hi)) }

OverflowPrograms ==
    { <<Let("hi", IntLit(I64_MAX)),
        Let("lo", BinOp(UnaryOp("Neg", Ident("hi")), "Sub", Num(1))),
        ExprStmt(e)>> : e \in OverflowExprs }

\* ---- the remaining forms ----
OtherPrograms ==
    { <<ExprStmt(If(c, Blk(Num(1)), els))>> :
          c \in {BoolLit(TRUE), BoolLit(FALSE), Num(1), Ident("nope")},
          els \in {None, Some(Blk(Num(2)))} }
    \cup
    { <<ExprStmt(UnaryOp(op, a))>> :
          op \in {"Neg", "Not"}, a \in Operands \cup {Ident("nope")} }
    \cup
    { <<EnumDef("Color", <<"Red", "Green">>),
        DataDef("P", <<[name |-> "x", default |-> None]>>),
        Let("p", DataConstructor("P", <<FieldInit("x", Num(1)),
                                        FieldInit("c", Ident(colour))>>)),
        ExprStmt(Match(FieldAccess(o, fld),
           <<MatchArm(PIdent("Red"), Num(1)),
             MatchArm(PLiteral(Num(1)), Num(2)),
             MatchArm(PIdent("other"), Ident("other"))>>))>> :
          o \in {Ident("p"), Num(1), Ident("nope"),
                 Call("vec3", <<Num(1), FloatLit(<<5, 2>>),
                                LengthLit(<<1, 1>>, "Cm")>>)},
          fld \in {"x", "c", "z"}, colour \in {"Red", "Green"} }
    \cup
    { <<ExprStmt(Call(name, args))>> :
          name \in {"sphere", "vec3", "trace", "map", "nope"},
          args \in SeqsUpTo({Num(1), StringLit("a"), Ident("nope"),
                             List(<<Num(1), StringLit("a")>>),
                             Ident("sphere"),
                             Lambda(<<Param("v", None)>>,
                                    UnaryOp("Neg", Ident("v")))}, 2) }
    \cup
    { <<ExprStmt(FnCall(Num(1), <<>>))>>,
      <<ExprStmt(FnCall(Ident("sphere"), <<Named("r", Num(1))>>))>>,
      <<ExprStmt(FnCall(Ident("vec3"), <<Named("z", Num(1)), Pos(Num(2)),
                                         Named("x", Num(0))>>))>>,
      <<ExprStmt(DataConstructor("P", <<FieldInit("x", Ident("nope"))>>))>>,
      <<ExprStmt(List(<<Num(1), Ident("nope"), Num(2)>>))>>,
      <<Let("x", Ident("nope")), ExprStmt(Ident("x"))>>,
      <<ExprStmt(Call("vec3", <<Num(1), Num(2), Num(3)>>))>> }

\* ---- defaults: a lambda made in a block that has d and s, called with
\* or without an argument from a block that has c and s ----
DefaultPrograms ==
    { <<Let("f", Block(<<Let("d", Num(5)), Let("s", Num(1))>>,
                       Some(Lambda(<<Param("p", Some(Ident(dflt)))>>,
                                   Blk(List(<<Ident("p"), Ident(free)>>)))))),
        ExprStmt(Block(<<Let("c", Num(3)), Let("s", Num(2))>>,
                       Some(FnCall(Ident("f"), args))))>> :
          dflt \in {"c", "d", "s"}, free \in {"c", "d", "s"},
          args \in {<<>>, <<Pos(Num(9))>>} }

\* ---- binary operators on operands that fail ----
StrictOperands ==
    {BoolLit(TRUE), BoolLit(FALSE), Num(1), Ident("nope"), Ident("nope2")}

StrictPrograms ==
    { <<ExprStmt(BinOp(a, op, b))>> :
          a \in StrictOperands, op \in {"And", "Or", "Add", "Eq", "Lt"},
          b \in StrictOperands }

\* ---- map over one item with `fn f(params) { [a, b] }` ----
MapArityPrograms ==
    { <<FnDef("f", params,
              Blk(List([i \in 1..Len(params) |-> Ident(params[i].name)]))),
        ExprStmt(Call("map", <<Ident("f"), List(<<Num(1)>>)>>))>> :
          params \in ParamLists }

Programs ==
    DefaultPrograms \cup StrictPrograms \cup MapArityPrograms
    \cup RootPrograms \cup BlockPrograms \cup ClosurePrograms \cup ArgPrograms
    \cup BinOpPrograms \cup EqPrograms \cup MatchPrograms \cup WithPrograms
    \cup PipePrograms \cup PipeEquivPrograms \cup RecursionPrograms
    \cup OverflowPrograms
    \cup OtherPrograms

\* ------------------------------------------------------------------------
\* The source texts.
\* ------------------------------------------------------------------------
MaxSourceLen == 3

\* The characters of the short sources.
SourceChars ==
    {"1", ".", "m", "i", "n", " ", "\n", "-", "*", "(", "\"", "/"}

\* Every source of at most MaxSourceLen characters.
ShortSources == SeqsUpTo(SourceChars, MaxSourceLen)

\* operands joined by infix operators
LadderSources ==
    { \* a |> b |> c
      <<"a", " ", "|", ">", " ", "b", " ", "|", ">", " ", "c">>,
      \* a |> b || c
      <<"a", " ", "|", ">", " ", "b", " ", "|", "|", " ", "c">>,
      \* a |> b && c
      <<"a", " ", "|", ">", " ", "b", " ", "&", "&", " ", "c">>,
      \* a |> b == c
      <<"a", " ", "|", ">", " ", "b", " ", "=", "=", " ", "c">>,
      \* a |> b != c
      <<"a", " ", "|", ">", " ", "b", " ", "!", "=", " ", "c">>,
      \* a |> b < c
      <<"a", " ", "|", ">", " ", "b", " ", "<", " ", "c">>,
      \* a |> b <= c
      <<"a", " ", "|", ">", " ", "b", " ", "<", "=", " ", "c">>,
      \* a |> b > c
      <<"a", " ", "|", ">", " ", "b", " ", ">", " ", "c">>,
      \* a |> b >= c
      <<"a", " ", "|", ">", " ", "b", " ", ">", "=", " ", "c">>,
      \* a |> b + c
      <<"a", " ", "|", ">", " ", "b", " ", "+", " ", "c">>,
      \* a |> b - c
      <<"a", " ", "|", ">", " ", "b", " ", "-", " ", "c">>,
      \* a |> b * c
      <<"a", " ", "|", ">", " ", "b", " ", "*", " ", "c">>,
      \* a |> b / c
      <<"a", " ", "|", ">", " ", "b", " ", "/", " ", "c">>,
      \* a || b |> c
      <<"a", " ", "|", "|", " ", "b", " ", "|", ">", " ", "c">>,
      \* a || b || c
      <<"a", " ", "|", "|", " ", "b", " ", "|", "|", " ", "c">>,
      \* a || b && c
      <<"a", " ", "|", "|", " ", "b", " ", "&", "&", " ", "c">>,
      \* a || b == c
      <<"a", " ", "|", "|", " ", "b", " ", "=", "=", " ", "c">>,
      \* a || b != c
      <<"a", " ", "|", "|", " ", "b", " ", "!", "=", " ", "c">>,
      \* a || b < c
      <<"a", " ", "|", "|", " ", "b", " ", "<", " ", "c">>,
      \* a || b <= c
      <<"a", " ", "|", "|", " ", "b", " ", "<", "=", " ", "c">>,
      \* a || b > c
      <<"a", " ", "|", "|", " ", "b", " ", ">", " ", "c">>,
      \* a || b >= c
      <<"a", " ", "|", "|", " ", "b", " ", ">", "=", " ", "c">>,
      \* a || b + c
      <<"a", " ", "|", "|", " ", "b", " ", "+", " ", "c">>,
      \* a || b - c
      <<"a", " ", "|", "|", " ", "b", " ", "-", " ", "c">>,
      \* a || b * c
      <<"a", " ", "|", "|", " ", "b", " ", "*", " ", "c">>,
      \* a || b / c
      <<"a", " ", "|", "|", " ", "b", " ", "/", " ", "c">>,
      \* a && b |> c
      <<"a", " ", "&", "&", " ", "b", " ", "|", ">", " ", "c">>,
      \* a && b || c
      <<"a", " ", "&", "&", " ", "b", " ", "|", "|", " ", "c">>,
      \* a && b && c
      <<"a", " ", "&", "&", " ", "b", " ", "&", "&", " ", "c">>,
      \* a && b == c
      <<"a", " ", "&", "&", " ", "b", " ", "=", "=", " ", "c">>,
      \* a && b != c
      <<"a", " ", "&", "&", " ", "b", " ", "!", "=", " ", "c">>,
      \* a && b < c
      <<"a", " ", "&", "&", " ", "b", " ", "<", " ", "c">>,
      \* a && b <= c
      <<"a", " ", "&", "&", " ", "b", " ", "<", "=", " ", "c">>,
      \* a && b > c
      <<"a", " ", "&", "&", " ", "b", " ", ">", " ", "c">>,
      \* a && b >= c
      <<"a", " ", "&", "&", " ", "b", " ", ">", "=", " ", "c">>,
      \* a && b + c
      <<"a", " ", "&", "&", " ", "b", " ", "+", " ", "c">>,
      \* a && b - c
      <<"a", " ", "&", "&", " ", "b", " ", "-", " ", "c">>,
      \* a && b * c
      <<"a", " ", "&", "&", " ", "b", " ", "*", " ", "c">>,
      \* a && b / c
      <<"a", " ", "&", "&", " ", "b", " ", "/", " ", "c">>,
      \* a == b |> c
      <<"a", " ", "=", "=", " ", "b", " ", "|", ">", " ", "c">>,
      \* a == b || c
      <<"a", " ", "=", "=", " ", "b", " ", "|", "|", " ", "c">>,
      \* a == b && c
      <<"a", " ", "=", "=", " ", "b", " ", "&", "&", " ", "c">>,
      \* a == b == c
      <<"a", " ", "=", "=", " ", "b", " ", "=", "=", " ", "c">>,
      \* a == b != c
      <<"a", " ", "=", "=", " ", "b", " ", "!", "=", " ", "c">>,
      \* a == b < c
      <<"a", " ", "=", "=", " ", "b", " ", "<", " ", "c">>,
      \* a == b <= c
      <<"a", " ", "=", "=", " ", "b", " ", "<", "=", " ", "c">>,
      \* a == b > c
      <<"a", " ", "=", "=", " ", "b", " ", ">", " ", "c">>,
      \* a == b >= c
      <<"a", " ", "=", "=", " ", "b", " ", ">", "=", " ", "c">>,
      \* a == b + c
      <<"a", " ", "=", "=", " ", "b", " ", "+", " ", "c">>,
      \* a == b - c
      <<"a", " ", "=", "=", " ", "b", " ", "-", " ", "c">>,
      \* a == b * c
      <<"a", " ", "=", "=", " ", "b", " ", "*", " ", "c">>,
      \* a == b / c
      <<"a", " ", "=", "=", " ", "b", " ", "/", " ", "c">>,
      \* a != b |> c
      <<"a", " ", "!", "=", " ", "b", " ", "|", ">", " ", "c">>,
      \* a != b || c
      <<"a", " ", "!", "=", " ", "b", " ", "|", "|", " ", "c">>,
      \* a != b && c
      <<"a", " ", "!", "=", " ", "b", " ", "&", "&", " ", "c">>,
      \* a != b == c
      <<"a", " ", "!", "=", " ", "b", " ", "=", "=", " ", "c">>,
      \* a != b != c
      <<"a", " ", "!", "=", " ", "b", " ", "!", "=", " ", "c">>,
      \* a != b < c
      <<"a", " ", "!", "=", " ", "b", " ", "<", " ", "c">>,
      \* a != b <= c
      <<"a", " ", "!", "=", " ", "b", " ", "<", "=", " ", "c">>,
      \* a != b > c
      <<"a", " ", "!", "=", " ", "b", " ", ">", " ", "c">>,
      \* a != b >= c
      <<"a", " ", "!", "=", " ", "b", " ", ">", "=", " ", "c">>,
      \* a != b + c
      <<"a", " ", "!", "=", " ", "b", " ", "+", " ", "c">>,
      \* a != b - c
      <<"a", " ", "!", "=", " ", "b", " ", "-", " ", "c">>,
      \* a != b * c
      <<"a", " ", "!", "=", " ", "b", " ", "*", " ", "c">>,
      \* a != b / c
      <<"a", " ", "!", "=", " ", "b", " ", "/", " ", "c">>,
      \* a < b |> c
      <<"a", " ", "<", " ", "b", " ", "|", ">", " ", "c">>,
      \* a < b || c
      <<"a", " ", "<", " ", "b", " ", "|", "|", " ", "c">>,
      \* a < b && c
      <<"a", " ", "<", " ", "b", " ", "&", "&", " ", "c">>,
      \* a < b == c
      <<"a", " ", "<", " ", "b", " ", "=", "=", " ", "c">>,
      \* a < b != c
      <<"a", " ", "<", " ", "b", " ", "!", "=", " ", "c">>,
      \* a < b < c
      <<"a", " ", "<", " ", "b", " ", "<", " ", "c">>,
      \* a < b <= c
      <<"a", " ", "<", " ", "b", " ", "<", "=", " ", "c">>,
      \* a < b > c
      <<"a", " ", "<", " ", "b", " ", ">", " ", "c">>,
      \* a < b >= c
      <<"a", " ", "<", " ", "b", " ", ">", "=", " ", "c">>,
      \* a < b + c
      <<"a", " ", "<", " ", "b", " ", "+", " ", "c">>,
      \* a < b - c
      <<"a", " ", "<", " ", "b", " ", "-", " ", "c">>,
      \* a < b * c
      <<"a", " ", "<", " ", "b", " ", "*", " ", "c">>,
      \* a < b / c
      <<"a", " ", "<", " ", "b", " ", "/", " ", "c">>,
      \* a <= b |> c
      <<"a", " ", "<", "=", " ", "b", " ", "|", ">", " ", "c">>,
      \* a <= b || c
      <<"a", " ", "<", "=", " ", "b", " ", "|", "|", " ", "c">>,
      \* a <= b && c
      <<"a", " ", "<", "=", " ", "b", " ", "&", "&", " ", "c">>,
      \* a <= b == c
      <<"a", " ", "<", "=", " ", "b", " ", "=", "=", " ", "c">>,
      \* a <= b != c
      <<"a", " ", "<", "=", " ", "b", " ", "!", "=", " ", "c">>,
      \* a <= b < c
      <<"a", " ", "<", "=", " ", "b", " ", "<", " ", "c">>,
      \* a <= b <= c
      <<"a", " ", "<", "=", " ", "b", " ", "<", "=", " ", "c">>,
      \* a <= b > c
      <<"a", " ", "<", "=", " ", "b", " ", ">", " ", "c">>,
      \* a <= b >= c
      <<"a", " ", "<", "=", " ", "b", " ", ">", "=", " ", "c">>,
      \* a <= b + c
      <<"a", " ", "<", "=", " ", "b", " ", "+", " ", "c">>,
      \* a <= b - c
      <<"a", " ", "<", "=", " ", "b", " ", "-", " ", "c">>,
      \* a <= b * c
      <<"a", " ", "<", "=", " ", "b", " ", "*", " ", "c">>,
      \* a <= b / c
      <<"a", " ", "<", "=", " ", "b", " ", "/", " ", "c">>,
      \* a > b |> c
      <<"a", " ", ">", " ", "b", " ", "|", ">", " ", "c">>,
      \* a > b || c
      <<"a", " ", ">", " ", "b", " ", "|", "|", " ", "c">>,
      \* a > b && c
      <<"a", " ", ">", " ", "b", " ", "&", "&", " ", "c">>,
      \* a > b == c
      <<"a", " ", ">", " ", "b", " ", "=", "=", " ", "c">>,
      \* a > b != c
      <<"a", " ", ">", " ", "b", " ", "!", "=", " ", "c">>,
      \* a > b < c
      <<"a", " ", ">", " ", "b", " ", "<", " ", "c">>,
      \* a > b <= c
      <<"a", " ", ">", " ", "b", " ", "<", "=", " ", "c">>,
      \* a > b > c
      <<"a", " ", ">", " ", "b", " ", ">", " ", "c">>,
      \* a > b >= c
      <<"a", " ", ">", " ", "b", " ", ">", "=", " ", "c">>,
      \* a > b + c
      <<"a", " ", ">", " ", "b", " ", "+", " ", "c">>,
      \* a > b - c
      <<"a", " ", ">", " ", "b", " ", "-", " ", "c">>,
      \* a > b * c
      <<"a", " ", ">", " ", "b", " ", "*", " ", "c">>,
      \* a > b / c
      <<"a", " ", ">", " ", "b", " ", "/", " ", "c">>,
      \* a >= b |> c
      <<"a", " ", ">", "=", " ", "b", " ", "|", ">", " ", "c">>,
      \* a >= b || c
      <<"a", " ", ">", "=", " ", "b", " ", "|", "|", " ", "c">>,
      \* a >= b && c
      <<"a", " ", ">", "=", " ", "b", " ", "&", "&", " ", "c">>,
      \* a >= b == c
      <<"a", " ", ">", "=", " ", "b", " ", "=", "=", " ", "c">>,
      \* a >= b != c
      <<"a", " ", ">", "=", " ", "b", " ", "!", "=", " ", "c">>,
      \* a >= b < c
      <<"a", " ", ">", "=", " ", "b", " ", "<", " ", "c">>,
      \* a >= b <= c
      <<"a", " ", ">", "=", " ", "b", " ", "<", "=", " ", "c">>,
      \* a >= b > c
      <<"a", " ", ">", "=", " ", "b", " ", ">", " ", "c">>,
      \* a >= b >= c
      <<"a", " ", ">", "=", " ", "b", " ", ">", "=", " ", "c">>,
      \* a >= b + c
      <<"a", " ", ">", "=", " ", "b", " ", "+", " ", "c">>,
      \* a >= b - c
      <<"a", " ", ">", "=", " ", "b", " ", "-", " ", "c">>,
      \* a >= b * c
      <<"a", " ", ">", "=", " ", "b", " ", "*", " ", "c">>,
      \* a >= b / c
      <<"a", " ", ">", "=", " ", "b", " ", "/", " ", "c">>,
      \* a + b |> c
      <<"a", " ", "+", " ", "b", " ", "|", ">", " ", "c">>,
      \* a + b || c
      <<"a", " ", "+", " ", "b", " ", "|", "|", " ", "c">>,
      \* a + b && c
      <<"a", " ", "+", " ", "b", " ", "&", "&", " ", "c">>,
      \* a + b == c
      <<"a", " ", "+", " ", "b", " ", "=", "=", " ", "c">>,
      \* a + b != c
      <<"a", " ", "+", " ", "b", " ", "!", "=", " ", "c">>,
      \* a + b < c
      <<"a", " ", "+", " ", "b", " ", "<", " ", "c">>,
      \* a + b <= c
      <<"a", " ", "+", " ", "b", " ", "<", "=", " ", "c">>,
      \* a + b > c
      <<"a", " ", "+", " ", "b", " ", ">", " ", "c">>,
      \* a + b >= c
      <<"a", " ", "+", " ", "b", " ", ">", "=", " ", "c">>,
      \* a + b + c
      <<"a", " ", "+", " ", "b", " ", "+", " ", "c">>,
      \* a + b - c
      <<"a", " ", "+", " ", "b", " ", "-", " ", "c">>,
      \* a + b * c
      <<"a", " ", "+", " ", "b", " ", "*", " ", "c">>,
      \* a + b / c
      <<"a", " ", "+", " ", "b", " ", "/", " ", "c">>,
      \* a - b |> c
      <<"a", " ", "-", " ", "b", " ", "|", ">", " ", "c">>,
      \* a - b || c
      <<"a", " ", "-", " ", "b", " ", "|", "|", " ", "c">>,
      \* a - b && c
      <<"a", " ", "-", " ", "b", " ", "&", "&", " ", "c">>,
      \* a - b == c
      <<"a", " ", "-", " ", "b", " ", "=", "=", " ", "c">>,
      \* a - b != c
      <<"a", " ", "-", " ", "b", " ", "!", "=", " ", "c">>,
      \* a - b < c
      <<"a", " ", "-", " ", "b", " ", "<", " ", "c">>,
      \* a - b <= c
      <<"a", " ", "-", " ", "b", " ", "<", "=", " ", "c">>,
      \* a - b > c
      <<"a", " ", "-", " ", "b", " ", ">", " ", "c">>,
      \* a - b >= c
      <<"a", " ", "-", " ", "b", " ", ">", "=", " ", "c">>,
      \* a - b + c
      <<"a", " ", "-", " ", "b", " ", "+", " ", "c">>,
      \* a - b - c
      <<"a", " ", "-", " ", "b", " ", "-", " ", "c">>,
      \* a - b * c
      <<"a", " ", "-", " ", "b", " ", "*", " ", "c">>,
      \* a - b / c
      <<"a", " ", "-", " ", "b", " ", "/", " ", "c">>,
      \* a * b |> c
      <<"a", " ", "*", " ", "b", " ", "|", ">", " ", "c">>,
      \* a * b || c
      <<"a", " ", "*", " ", "b", " ", "|", "|", " ", "c">>,
      \* a * b && c
      <<"a", " ", "*", " ", "b", " ", "&", "&", " ", "c">>,
      \* a * b == c
      <<"a", " ", "*", " ", "b", " ", "=", "=", " ", "c">>,
      \* a * b != c
      <<"a", " ", "*", " ", "b", " ", "!", "=", " ", "c">>,
      \* a * b < c
      <<"a", " ", "*", " ", "b", " ", "<", " ", "c">>,
      \* a * b <= c
      <<"a", " ", "*", " ", "b", " ", "<", "=", " ", "c">>,
      \* a * b > c
      <<"a", " ", "*", " ", "b", " ", ">", " ", "c">>,
      \* a * b >= c
      <<"a", " ", "*", " ", "b", " ", ">", "=", " ", "c">>,
      \* a * b + c
      <<"a", " ", "*", " ", "b", " ", "+", " ", "c">>,
      \* a * b - c
      <<"a", " ", "*", " ", "b", " ", "-", " ", "c">>,
      \* a * b * c
      <<"a", " ", "*", " ", "b", " ", "*", " ", "c">>,
      \* a * b / c
      <<"a", " ", "*", " ", "b", " ", "/", " ", "c">>,
      \* a / b |> c
      <<"a", " ", "/", " ", "b", " ", "|", ">", " ", "c">>,
      \* a / b || c
      <<"a", " ", "/", " ", "b", " ", "|", "|", " ", "c">>,
      \* a / b && c
      <<"a", " ", "/", " ", "b", " ", "&", "&", " ", "c">>,
      \* a / b == c
      <<"a", " ", "/", " ", "b", " ", "=", "=", " ", "c">>,
      \* a / b != c
      <<"a", " ", "/", " ", "b", " ", "!", "=", " ", "c">>,
      \* a / b < c
      <<"a", " ", "/", " ", "b", " ", "<", " ", "c">>,
      \* a / b <= c
      <<"a", " ", "/", " ", "b", " ", "<", "=", " ", "c">>,
      \* a / b > c
      <<"a", " ", "/", " ", "b", " ", ">", " ", "c">>,
      \* a / b >= c
      <<"a", " ", "/", " ", "b", " ", ">", "=", " ", "c">>,
      \* a / b + c
      <<"a", " ", "/", " ", "b", " ", "+", " ", "c">>,
      \* a / b - c
      <<"a", " ", "/", " ", "b", " ", "-", " ", "c">>,
      \* a / b * c
      <<"a", " ", "/", " ", "b", " ", "*", " ", "c">>,
      \* a / b / c
      <<"a", " ", "/", " ", "b", " ", "/", " ", "c">>,
      \* -a |> b
      <<"-", "a", " ", "|", ">", " ", "b">>,
      \* !a |> b
      <<"!", "a", " ", "|", ">", " ", "b">>,
      \* a |> -b
      <<"a", " ", "|", ">", " ", "-", "b">>,
      \* -a || b
      <<"-", "a", " ", "|", "|", " ", "b">>,
      \* !a || b
      <<"!", "a", " ", "|", "|", " ", "b">>,
      \* a || -b
      <<"a", " ", "|", "|", " ", "-", "b">>,
      \* -a && b
      <<"-", "a", " ", "&", "&", " ", "b">>,
      \* !a && b
      <<"!", "a", " ", "&", "&", " ", "b">>,
      \* a && -b
      <<"a", " ", "&", "&", " ", "-", "b">>,
      \* -a == b
      <<"-", "a", " ", "=", "=", " ", "b">>,
      \* !a == b
      <<"!", "a", " ", "=", "=", " ", "b">>,
      \* a == -b
      <<"a", " ", "=", "=", " ", "-", "b">>,
      \* -a != b
      <<"-", "a", " ", "!", "=", " ", "b">>,
      \* !a != b
      <<"!", "a", " ", "!", "=", " ", "b">>,
      \* a != -b
      <<"a", " ", "!", "=", " ", "-", "b">>,
      \* -a < b
      <<"-", "a", " ", "<", " ", "b">>,
      \* !a < b
      <<"!", "a", " ", "<", " ", "b">>,
      \* a < -b
      <<"a", " ", "<", " ", "-", "b">>,
      \* -a <= b
      <<"-", "a", " ", "<", "=", " ", "b">>,
      \* !a <= b
      <<"!", "a", " ", "<", "=", " ", "b">>,
      \* a <= -b
      <<"a", " ", "<", "=", " ", "-", "b">>,
      \* -a > b
      <<"-", "a", " ", ">", " ", "b">>,
      \* !a > b
      <<"!", "a", " ", ">", " ", "b">>,
      \* a > -b
      <<"a", " ", ">", " ", "-", "b">>,
      \* -a >= b
      <<"-", "a", " ", ">", "=", " ", "b">>,
      \* !a >= b
      <<"!", "a", " ", ">", "=", " ", "b">>,
      \* a >= -b
      <<"a", " ", ">", "=", " ", "-", "b">>,
      \* -a + b
      <<"-", "a", " ", "+", " ", "b">>,
      \* !a + b
      <<"!", "a", " ", "+", " ", "b">>,
      \* a + -b
      <<"a", " ", "+", " ", "-", "b">>,
      \* -a - b
      <<"-", "a", " ", "-", " ", "b">>,
      \* !a - b
      <<"!", "a", " ", "-", " ", "b">>,
      \* a - -b
      <<"a", " ", "-", " ", "-", "b">>,
      \* -a * b
      <<"-", "a", " ", "*", " ", "b">>,
      \* !a * b
      <<"!", "a", " ", "*", " ", "b">>,
      \* a * -b
      <<"a", " ", "*", " ", "-", "b">>,
      \* -a / b
      <<"-", "a", " ", "/", " ", "b">>,
      \* !a / b
      <<"!", "a", " ", "/", " ", "b">>,
      \* a / -b
      <<"a", " ", "/", " ", "-", "b">>,
      \* a + b * c - d / e
      <<"a", " ", "+", " ", "b", " ", "*", " ", "c", " ", "-", " ", "d", " ", "/", " ", "e">>,
      \* a || b && c == d
      <<"a", " ", "|", "|", " ", "b", " ", "&", "&", " ", "c", " ", "=", "=", " ", "d">>,
      \* c == d < e + f * g
      <<"c", " ", "=", "=", " ", "d", " ", "<", " ", "e", " ", "+", " ", "f", " ", "*", " ", "g">>,
      \* a * b + c < d == e && f || g |> h
      <<"a", " ", "*", " ", "b", " ", "+", " ", "c", " ", "<", " ", "d", " ", "=", "=", " ", "e", " ", "&", "&", " ", "f", " ", "|", "|", " ", "g", " ", "|", ">", " ", "h">>,
      \* - - a * b
      <<"-", " ", "-", " ", "a", " ", "*", " ", "b">>,
      \* !-a + b
      <<"!", "-", "a", " ", "+", " ", "b">>,
      \* a - -b - c
      <<"a", " ", "-", " ", "-", "b", " ", "-", " ", "c">>,
      \* 1 - 2 - 3
      <<"1", " ", "-", " ", "2", " ", "-", " ", "3">>,
      \* 2 * 3 + 4 * 5
      <<"2", " ", "*", " ", "3", " ", "+", " ", "4", " ", "*", " ", "5">> }

\* numbers, suffixes, comments, strings, stray characters
LexerSources ==
    { \* 10min
      <<"1", "0", "m", "i", "n">>,
      \* 10 min
      <<"1", "0", " ", "m", "i", "n">>,
      \* 1.5mm
      <<"1", ".", "5", "m", "m">>,
      \* 2.5deg
      <<"2", ".", "5", "d", "e", "g">>,
      \* 3rad
      <<"3", "r", "a", "d">>,
      \* 10cm
      <<"1", "0", "c", "m">>,
      \* 7in
      <<"7", "i", "n">>,
      \* 10m2
      <<"1", "0", "m", "2">>,
      \* 10mm_x
      <<"1", "0", "m", "m", "_", "x">>,
      \* 1.5x
      <<"1", ".", "5", "x">>,
      \* 10if
      <<"1", "0", "i", "f">>,
      \* 10true
      <<"1", "0", "t", "r", "u", "e">>,
      \* 1.
      <<"1", ".">>,
      \* 1..2
      <<"1", ".", ".", "2">>,
      \* 1.m
      <<"1", ".", "m">>,
      \* 007
      <<"0", "0", "7">>,
      \* 1.50
      <<"1", ".", "5", "0">>,
      \* /* a /* b */
      <<"/", "*", " ", "a", " ", "/", "*", " ", "b", " ", "*", "/">>,
      \* /* a /* b */ */ 1
      <<"/", "*", " ", "a", " ", "/", "*", " ", "b", " ", "*", "/", " ", "*", "/", " ", "1">>,
      \* // c\n1
      <<"/", "/", " ", "c", "\n", "1">>,
      \* "abc
      <<"\"", "a", "b", "c">>,
      \* "a\\"b"
      <<"\"", "a", "\\", "\"", "b", "\"">>,
      \* "a\\
      <<"\"", "a", "\\">>,
      \* a & b
      <<"a", " ", "&", " ", "b">>,
      \* a # b
      <<"a", " ", "#", " ", "b">>,
      \* a && b
      <<"a", " ", "&", "&", " ", "b">>,
      \* x_1
      <<"x", "_", "1">>,
      \* _
      <<"_">>,
      \* \t1\r\n
      <<"\t", "1", "\r", "\n">>,
      \* 1mmm
      <<"1", "m", "m", "m">>,
      \* 1 mm
      <<"1", " ", "m", "m">>,
      \* 1e5
      <<"1", "e", "5">>,
      \* 1.5e
      <<"1", ".", "5", "e">>,
      \* 12degx
      <<"1", "2", "d", "e", "g", "x">>,
      \* 9223372036854775807
      <<"9", "2", "2", "3", "3", "7", "2", "0", "3", "6", "8", "5", "4", "7", "7", "5", "8", "0", "7">>,
      \* 9223372036854775808
      <<"9", "2", "2", "3", "3", "7", "2", "0", "3", "6", "8", "5", "4", "7", "7", "5", "8", "0", "8">> }

\* expressions and statements on several lines
NewlineSources ==
    { \* a\nb
      <<"a", "\n", "b">>,
      \* a\n-b
      <<"a", "\n", "-", "b">>,
      \* a\n(b)
      <<"a", "\n", "(", "b", ")">>,
      \* a\n.b
      <<"a", "\n", ".", "b">>,
      \* a\nwith { x = 1 }
      <<"a", "\n", "w", "i", "t", "h", " ", "{", " ", "x", " ", "=", " ", "1", " ", "}">>,
      \* let x = 1\n-2
      <<"l", "e", "t", " ", "x", " ", "=", " ", "1", "\n", "-", "2">>,
      \* let x = 1\nlet y = 2
      <<"l", "e", "t", " ", "x", " ", "=", " ", "1", "\n", "l", "e", "t", " ", "y", " ", "=", " ", "2">>,
      \* a\n|> f
      <<"a", "\n", "|", ">", " ", "f">>,
      \* f(a)\n[1]
      <<"f", "(", "a", ")", "\n", "[", "1", "]">>,
      \* if a { 1 }\nelse { 2 }
      <<"i", "f", " ", "a", " ", "{", " ", "1", " ", "}", "\n", "e", "l", "s", "e", " ", "{", " ", "2", " ", "}">>,
      \* a;\n-b
      <<"a", ";", "\n", "-", "b">>,
      \* a\n\n+ b
      <<"a", "\n", "\n", "+", " ", "b">>,
      \* let x = 1\n(2)\nx
      <<"l", "e", "t", " ", "x", " ", "=", " ", "1", "\n", "(", "2", ")", "\n", "x">>,
      \* { a\n-b }
      <<"{", " ", "a", "\n", "-", "b", " ", "}">>,
      \* 1 +\n2
      <<"1", " ", "+", "\n", "2">>,
      \* a\n
      <<"a", "\n">>,
      \* \na
      <<"\n", "a">> }

\* sources with and without errors in each stage
PipelineSources ==
    { \* 1 #
      <<"1", " ", "#">>,
      \* 1 # 2
      <<"1", " ", "#", " ", "2">>,
      \* & # 1
      <<"&", " ", "#", " ", "1">>,
      \* (1
      <<"(", "1">>,
      \* # (
      <<"#", " ", "(">>,
      \* 1 + 2
      <<"1", " ", "+", " ", "2">>,
      \* &
      <<"&">>,
      \* let x = 
      <<"l", "e", "t", " ", "x", " ", "=", " ">>,
      \* let x = 2\nx * 3
      <<"l", "e", "t", " ", "x", " ", "=", " ", "2", "\n", "x", " ", "*", " ", "3">>,
      \* fn f(a) { a + 1 }\nf(1)
      <<"f", "n", " ", "f", "(", "a", ")", " ", "{", " ", "a", " ", "+", " ", "1", " ", "}", "\n", "f", "(", "1", ")">>,
      \* 1 |> f
      <<"1", " ", "|", ">", " ", "f">>,
      \* fn g(a) { a }\n1 |> g
      <<"f", "n", " ", "g", "(", "a", ")", " ", "{", " ", "a", " ", "}", "\n", "1", " ", "|", ">", " ", "g">>,
      \* fn g(a) { a }\n1 |> g\n|> g
      <<"f", "n", " ", "g", "(", "a", ")", " ", "{", " ", "a", " ", "}", "\n", "1", " ", "|", ">", " ", "g", "\n", "|", ">", " ", "g">>,
      \* let x = 1;\nlet y = 2;\nx + y
      <<"l", "e", "t", " ", "x", " ", "=", " ", "1", ";", "\n", "l", "e", "t", " ", "y", " ", "=", " ", "2", ";", "\n", "x", " ", "+", " ", "y">>,
      \* data P { x: Int = 1 }\nlet p = P { }\np with { x = 2 }.x
      <<"d", "a", "t", "a", " ", "P", " ", "{", " ", "x", ":", " ", "I", "n", "t", " ", "=", " ", "1", " ", "}", "\n", "l", "e", "t", " ", "p", " ", "=", " ", "P", " ", "{", " ", "}", "\n", "p", " ", "w", "i", "t", "h", " ", "{", " ", "x", " ", "=", " ", "2", " ", "}", ".", "x">>,
      \* enum C { R, G }\nR
      <<"e", "n", "u", "m", " ", "C", " ", "{", " ", "R", ",", " ", "G", " ", "}", "\n", "R">>,
      \* match 1 { 1 => 2, _ => 3 }
      <<"m", "a", "t", "c", "h", " ", "1", " ", "{", " ", "1", " ", "=", ">", " ", "2", ",", " ", "_", " ", "=", ">", " ", "3", " ", "}">>,
      \* |a| a
      <<"|", "a", "|", " ", "a">>,
      \* [1, 2][0]
      <<"[", "1", ",", " ", "2", "]", "[", "0", "]">>,
      \* if true { 1 } else { 2 }
      <<"i", "f", " ", "t", "r", "u", "e", " ", "{", " ", "1", " ", "}", " ", "e", "l", "s", "e", " ", "{", " ", "2", " ", "}">>,
      \* f(a = 1, 2)
      <<"f", "(", "a", " ", "=", " ", "1", ",", " ", "2", ")">>,
      \* fn f(a: List[Int]) -> Int { a }
      <<"f", "n", " ", "f", "(", "a", ":", " ", "L", "i", "s", "t", "[", "I", "n", "t", "]", ")", " ", "-", ">", " ", "I", "n", "t", " ", "{", " ", "a", " ", "}">>,
      \* fn f(b: Fn(Int) -> Int = 2) { b }
      <<"f", "n", " ", "f", "(", "b", ":", " ", "F", "n", "(", "I", "n", "t", ")", " ", "-", ">", " ", "I", "n", "t", " ", "=", " ", "2", ")", " ", "{", " ", "b", " ", "}">>,
      \* let x: Int = 1
      <<"l", "e", "t", " ", "x", ":", " ", "I", "n", "t", " ", "=", " ", "1">>,
      \* match { 
      <<"m", "a", "t", "c", "h", " ", "{", " ">>,
      \* "s" + "t"
      <<"\"", "s", "\"", " ", "+", " ", "\"", "t", "\"">>,
      \* 1.5 + 2
      <<"1", ".", "5", " ", "+", " ", "2">>,
      \* 10mm * 2
      <<"1", "0", "m", "m", " ", "*", " ", "2">>,
      \* P { x = 1 
      <<"P", " ", "{", " ", "x", " ", "=", " ", "1", " ">>,
      \* fn
      <<"f", "n">>,
      \* x.
      <<"x", ".">>,
      \* |a
      <<"|", "a">>,
      \* [1
      <<"[", "1">>,
      \* { a; }
      <<"{", " ", "a", ";", " ", "}">> }

\* Blocks with and without a semicolon after the last expression.
BlockSources ==
    { \* { 1; }
      <<"{", " ", "1", ";", " ", "}">>,
      \* { 1 }
      <<"{", " ", "1", " ", "}">>,
      \* { 1;\n}
      <<"{", " ", "1", ";", "\n", "}">>,
      \* { 1\n}
      <<"{", " ", "1", "\n", "}">>,
      \* { 1; 2 }
      <<"{", " ", "1", ";", " ", "2", " ", "}">>,
      \* { 1; 2; }
      <<"{", " ", "1", ";", " ", "2", ";", " ", "}">>,
      \* { let x = 1; x; }
      <<"{", " ", "l", "e", "t", " ", "x", " ", "=", " ", "1", ";", " ", "x", ";", " ", "}">>,
      \* { let x = 1; x }
      <<"{", " ", "l", "e", "t", " ", "x", " ", "=", " ", "1", ";", " ", "x", " ", "}">>,
      \* { let x = 1 }
      <<"{", " ", "l", "e", "t", " ", "x", " ", "=", " ", "1", " ", "}">>,
      \* { }
      <<"{", " ", "}">>,
      \* { 1;; }
      <<"{", " ", "1", ";", ";", " ", "}">> }

\* Sources with the character U+00E9 (two bytes) inside and outside
\* strings and comments.
Utf8Sources ==
    { \* U+00E9
      <<Utf8Lead, Utf8Continuation>>,
      \* let U+00E9 = 1
      <<"l", "e", "t", " ", Utf8Lead, Utf8Continuation, " ", "=", " ", "1">>,
      \* "U+00E9"
      <<"\"", Utf8Lead, Utf8Continuation, "\"">>,
      \* "\U+00E9"
      <<"\"", "\\", Utf8Lead, Utf8Continuation, "\"">>,
      \* // U+00E9\n1
      <<"/", "/", " ", Utf8Lead, Utf8Continuation, "\n", "1">>,
      \* /* U+00E9 */ 1
      <<"/", "*", " ", Utf8Lead, Utf8Continuation, " ", "*", "/", " ", "1">>,
      \* x.U+00E9
      <<"x", ".", Utf8Lead, Utf8Continuation>>,
      \* 1 U+00E9
      <<"1", " ", Utf8Lead, Utf8Continuation>>,
      \* U+00E9 + 1
      <<Utf8Lead, Utf8Continuation, " ", "+", " ", "1">>,
      \* let x: U+00E9 = 1
      <<"l", "e", "t", " ", "x", ":", " ", Utf8Lead, Utf8Continuation, " ", "=", " ", "1">>,
      \* fn U+00E9() { 1 }
      <<"f", "n", " ", Utf8Lead, Utf8Continuation, "(", ")", " ", "{", " ", "1", " ", "}">>,
      \* f(U+00E9)
      <<"f", "(", Utf8Lead, Utf8Continuation, ")">>,
      \* |U+00E9| 1
      <<"|", Utf8Lead, Utf8Continuation, "|", " ", "1">>,
      \* enum C { U+00E9 }
      <<"e", "n", "u", "m", " ", "C", " ", "{", " ", Utf8Lead, Utf8Continuation, " ", "}">>,
      \* [U+00E9]
      <<"[", Utf8Lead, Utf8Continuation, "]">>,
      \* 1 + U+00E9
      <<"1", " ", "+", " ", Utf8Lead, Utf8Continuation>>,
      \* x.U+00E9.y
      <<"x", ".", Utf8Lead, Utf8Continuation, ".", "y">>,
      \* let x = "U+00E9" + U+00E9
      <<"l", "e", "t", " ", "x", " ", "=", " ", "\"", Utf8Lead, Utf8Continuation, "\"", " ", "+", " ", Utf8Lead, Utf8Continuation>> }

Sources ==
    ShortSources \cup LadderSources \cup LexerSources \cup NewlineSources
    \cup PipelineSources \cup BlockSources \cup Utf8Sources

\* An AST of the catalog is handed to lower, or a source text to the lexer.
Init ==
    /\ \/ /\ src \in Programs
          /\ pc = "lower"
          /\ front = NoSource
       \/ /\ src = <<>>
          /\ pc = "lex"
          /\ front \in {[NoSource EXCEPT !.source = t] : t \in Sources}
    /\ dag = [nodes |-> <<>>, roots |-> <<>>]
    /\ env = Env_new
    /\ data_types = EmptyScope
    /\ stack = <<>>
    /\ ctl = ContCtl
    /\ ri = 1
    /\ last = VUnit
    /\ result = None
    /\ trace = <<>>
    /\ ev = NoEvent

Next ==
    \/ Lex
    \/ Parse
    \/ Lower
    \/ EvalInit
    \/ RootLoop
    \/ RootReturn
    \/ EvalLiteral
    \/ EvalIdent
    \/ EvalLambda
    \/ EvalFnDef
    \/ EvalDataDef
    \/ EvalEnumDef
    \/ EnterBinOp
    \/ ContBinOpLhs
    \/ ContBinOpRhs
    \/ EnterUnaryOp
    \/ ContUnaryOperand
    \/ EnterLet
    \/ ContLetValue
    \/ EnterBlock
    \/ BlockLoop
    \/ ContBlockStmt
    \/ ContBlockTail
    \/ EnterIf
    \/ ContIfCond
    \/ ContIfBranch
    \/ EnterMatch
    \/ ContMatchSubject
    \/ ContMatchBody
    \/ EnterList
    \/ ListLoop
    \/ ContListElem
    \/ EnterDataConstructor
    \/ CtorLoop
    \/ ContCtorField
    \/ EnterFieldAccess
    \/ ContFieldObject
    \/ EnterWithUpdate
    \/ ContWithBase
    \/ WithLoop
    \/ ContWithUpd
    \/ EnterFnCall
    \/ ContCallFunc
    \/ BuiltinArgsLoop
    \/ ContBuiltinArg
    \/ ContBuiltinDone
    \/ MapLoop
    \/ ContMapItem
    \/ ResolveArgsLoop
    \/ ContResolveArg
    \/ ResolveDefaultsLoop
    \/ ContResolveDefault
    \/ ContCallBody
    \/ StackOverflow

Spec == Init /\ [][Next]_vars

\* ------------------------------------------------------------------------
\* Properties.
\* ------------------------------------------------------------------------
RootIds == {dag.roots[i] : i \in 1..Len(dag.roots)}

IsRootId(id) == id \in RootIds

\* The roots eval_node was entered with, in the order of entry.
RootTrace == SelectSeq(trace, IsRootId)

\* eval is about to evaluate a root.
AtRootEntry == pc = "run" /\ ctl.m = "eval" /\ stack = <<>>

\* C1: eval evaluates the roots strictly in order, each once, in one global
\* Env that starts with the builtins registered and is handed from each
\* root to the next; it goes on to the next root only after a root returned
\* a value; it returns the value of the last root (Unit when there is no
\* root), or the error of the first failing root, after which no further
\* root is entered.
C1_EvalRootsInOrder ==
    pc \in {"run", "done"} =>
        /\ RootTrace = SubSeq(dag.roots, 1, Len(RootTrace))
        /\ (AtRootEntry /\ ri = 1) =>
               /\ Len(env.scopes) = 1
               /\ \A n \in BuiltinFnNames :
                      lookup(env, n) = Some(VBuiltinFn(n))
        /\ (AtRootEntry /\ ri > 1) => (ev.r.ok /\ env = ev.env1)
        /\ (pc = "run" /\ stack = <<>> /\ ctl.m = "cont" /\ ri > 1) =>
               (ev.r.ok /\ ev.id = dag.roots[ri - 1] /\ last = ev.r.v)
        /\ pc = "done" =>
               /\ IsSome(result)
               /\ IF Unwrap(result).ok
                  THEN /\ RootTrace = dag.roots
                       /\ dag.roots = <<>> => Unwrap(result) = Ok(VUnit)
                       /\ dag.roots # <<>> =>
                              /\ ev.id = Last(dag.roots)
                              /\ Unwrap(result) = ev.r
                  ELSE /\ RootTrace # <<>>
                       /\ ev.id = Last(RootTrace)
                       /\ Unwrap(result) = ev.r

\* A root in the middle of three failed and eval returned its error.
C1_Witness ==
    /\ pc = "done"
    /\ ~Unwrap(result).ok
    /\ Len(dag.roots) = 3
    /\ Len(RootTrace) = 2

\* The names the programs use.
ProbeNames ==
    {"a", "b", "f", "g", "h", "n", "p", "q", "r", "v", "x", "y", "z", "nope"}

ParamScope(params, args) ==
    LET n == IF Len(params) < Len(args) THEN Len(params) ELSE Len(args)
        last_of(name) ==
            CHOOSE j \in 1..n :
                /\ params[j].name = name
                /\ \A j2 \in (j + 1)..n : params[j2].name # name
    IN  [name \in {params[j].name : j \in 1..n} |-> args[last_of(name)]]

\* The body of a user function is about to run: called from a FnCall node
\* or from map through call_value.
AtBodyStart ==
    /\ pc = "run" /\ ctl.m = "eval" /\ stack # <<>>
    /\ Top.k \in {"CallBody", "MapLoop"}

BodyFn == IF Top.k = "CallBody" THEN Top.fn ELSE Top.func

BodyArgs == IF Top.k = "CallBody" THEN Top.args ELSE <<Top.items[Top.i]>>

\* C3: the body of a user function runs in the captured closure
\* environment with one fresh scope on top that binds the parameters to
\* the arguments, whatever the caller's environment is; when the call
\* returns, with a value or an error, the environment is the caller's as
\* it was just before the body started (and as it was when the call was
\* entered).
C3_CallEnv ==
    /\ AtBodyStart =>
           /\ env.scopes = Append(BodyFn.closure_env.scopes,
                                  ParamScope(BodyFn.params, BodyArgs))
           /\ Top.saved_env = Top.env0
    /\ ev.f.k = "CallBody" =>
           (ev.env1 = ev.f.saved_env /\ ev.env1 = ev.env0)
    /\ (pc = "run" /\ stack # <<>> /\ Top.k = "MapLoop" /\ ctl.m = "cont") =>
           env = Top.env0
    /\ ev.f.k = "BuiltinDone" => ev.env1 = ev.env0

\* A call returned an error from a body that ran in an environment other
\* than the caller's and had grown it.
C3_Witness ==
    /\ ev.f.k = "CallBody"
    /\ ~ev.r.ok
    /\ ev.f.saved_env # ev.f.fn.closure_env
    /\ lookup(ev.f.saved_env, "b") = Some(VNum(3))
    /\ env = ev.env1

\* `let a = 1; fn f(p) { a + p }; let a = 10; [f(2), a]`
SnapshotProgram ==
    <<Let("a", Num(1)),
      FnDef("f", <<Param("p", None)>>,
            Blk(BinOp(Ident("a"), "Add", Ident("p")))),
      Let("a", Num(10)),
      ExprStmt(List(<<Call("f", <<Num(2)>>), Ident("a")>>))>>

\* `let a = 1; fn f(p) { f }; let a = 10; [f(2), a]`
SelfReferenceProgram ==
    <<Let("a", Num(1)),
      FnDef("f", <<Param("p", None)>>, Blk(Ident("f"))),
      Let("a", Num(10)),
      ExprStmt(List(<<Call("f", <<Num(2)>>), Ident("a")>>))>>

JustEvaluated(kind) ==
    /\ pc = "run" /\ ctl.m = "ret"
    /\ ev.f.k = "leaf" /\ ev.id >= 0 /\ NodeAt(ev.id).k = kind

\* C4: a Lambda yields, and a FnDef binds to its name, a Function whose
\* closure environment is the environment as it was when the node was
\* evaluated, for FnDef before the function's own name was bound; when the
\* body later runs, every name other than a parameter resolves as it does
\* in that snapshot, so a binding made or rebound afterwards is not seen,
\* and a function defined by fn does not see itself.
C4_ClosureSnapshot ==
    /\ JustEvaluated("Lambda") =>
           /\ ev.r.ok /\ ev.r.v.t = "Function"
           /\ ev.r.v.closure_env = ev.env0
           /\ ev.env1 = ev.env0
    /\ JustEvaluated("FnDef") =>
           LET name == NodeAt(ev.id).name
               fn == lookup(ev.env1, name)
           IN  /\ IsSome(fn) /\ Unwrap(fn).t = "Function"
               /\ Unwrap(fn).closure_env = ev.env0
               /\ lookup(Unwrap(fn).closure_env, name) = lookup(ev.env0, name)
    /\ AtBodyStart =>
           \A n \in ProbeNames \ {BodyFn.params[j].name :
                                     j \in 1..Len(BodyFn.params)} :
               lookup(env, n) = lookup(BodyFn.closure_env, n)
    /\ (pc = "done" /\ src = SnapshotProgram) =>
           result = Some(Ok(VList(<<VNum(3), VNum(10)>>)))
    /\ (pc = "done" /\ src = SelfReferenceProgram) =>
           /\ ~Unwrap(result).ok
           /\ Unwrap(result).kind = "UndefinedName"

\* A body starts in a snapshot in which a is 1 while the caller has
\* rebound a to 10.
C4_Witness ==
    /\ AtBodyStart
    /\ lookup(env, "a") = Some(VNum(1))
    /\ lookup(Top.saved_env, "a") = Some(VNum(10))

\* The arguments of call node id as written: name (if any) and value node.
CallArgs(id) == NodeAt(id).args

ParamNames(params) == {params[j].name : j \in 1..Len(params)}

\* How many of the first i arguments are positional.
PosRank(iargs, i) == Cardinality({i2 \in 1..i : iargs[i2].name = None})

\* The parameter slot argument i is meant for: the first parameter of its
\* name, or the next slot from the left; 0 when there is none.
SlotOf(params, iargs, i) ==
    IF IsSome(iargs[i].name)
    THEN IF Unwrap(iargs[i].name) \in ParamNames(params)
         THEN CHOOSE j \in 1..Len(params) :
                  /\ params[j].name = Unwrap(iargs[i].name)
                  /\ \A j2 \in 1..(j - 1) :
                         params[j2].name # Unwrap(iargs[i].name)
         ELSE 0
    ELSE IF PosRank(iargs, i) <= Len(params) THEN PosRank(iargs, i) ELSE 0

SetMax(S) == CHOOSE x \in S : \A y \in S : y <= x

\* `fn f(a) { [a] }; f(1, 2)`
OneParamTwoPositional ==
    <<FnDef("f", <<Param("a", None)>>, Blk(List(<<Ident("a")>>))),
      ExprStmt(FnCall(Ident("f"), <<Pos(Num(1)), Pos(Num(2))>>))>>

\* `fn f(a, b = 9) { [a, b] }; f(1)`
DefaultOmitted ==
    <<FnDef("f", <<Param("a", None), Param("b", Some(Num(9)))>>,
            Blk(List(<<Ident("a"), Ident("b")>>))),
      ExprStmt(FnCall(Ident("f"), <<Pos(Num(1))>>))>>

BinOpDone(ops) ==
    /\ ev.f.k = "BinOpRhs"
    /\ NodeAt(ev.id).op \in ops
    /\ ev.inp.ok

IsNumericZero(v) ==
    \/ v.t = "Int" /\ v.n = Big(0)
    \/ v.t \in {"Float", "Length"} /\ FIsZero(v.f)

\* C6: a division whose right operand is a numeric zero (Int 0, Float 0.0
\* or Length 0.0) fails with DivisionByZero whatever the left operand is;
\* a division never returns an infinite or NaN value; a division fails
\* only with DivisionByZero or TypeError.
C6_DivisionByZero ==
    BinOpDone({"Div"}) =>
        /\ IsNumericZero(ev.inp.v) =>
               (~ev.r.ok /\ ev.r.kind = "DivisionByZero")
        /\ (ev.r.ok /\ ev.r.v.t \in {"Float", "Length", "Angle"}) =>
               FIsFinite(ev.r.v.f)
        /\ ~ev.r.ok => ev.r.kind \in {"DivisionByZero", "TypeError"}

\* C7: `==` gives true exactly when both operands are of the same Value
\* variant and their contents are equal, for every variant; `!=` gives the
\* negation.
C7_StructuralEquality ==
    BinOpDone({"Eq", "Neq"}) =>
        LET l == ev.f.l
            r == ev.inp.v
            same == l.t = r.t /\ l = r
        IN  ev.r = Ok(VBool(IF NodeAt(ev.id).op = "Eq" THEN same ELSE ~same))

\* How often node id was entered between trace positions t0 and t1.
Entries(id, t0, t1) ==
    Cardinality({i \in (t0 + 1)..t1 : trace[i] = id})

\* Arm i of the Match node just returned matches the subject value v.
ArmMatches(i, v) ==
    IsSome(match_pattern(ev.env0, NodeAt(ev.id).arms[i].pattern, v))

\* The body of a matched arm is about to be evaluated.
AtArmStart ==
    /\ pc = "run"
    /\ ctl.m = "eval"
    /\ stack # <<>>
    /\ Top.k = "MatchBody"
    /\ ctl.id = NodeAt(Top.id).arms[Top.arm].body

\* C8: Match evaluates its subject exactly once and tries the arms in
\* source order: the result is that of the body of the first arm whose
\* pattern matches and no other arm body is evaluated; PatternMismatch
\* when no arm matches; the arm's bindings live in one new scope on top of
\* the Match's environment, which is popped after the body whether the
\* body succeeds or fails.
C8_Match ==
    /\ AtArmStart =>
           /\ Len(env.scopes) = Len(Top.env0.scopes) + 1
           /\ Front(env.scopes) = Top.env0.scopes
    /\ ev.f.k = "MatchSubject" =>
           /\ Entries(NodeAt(ev.id).subject, ev.f.t0, ev.t1) = 1
           /\ \A i \in 1..Len(NodeAt(ev.id).arms) :
                  Entries(NodeAt(ev.id).arms[i].body, ev.f.t0, ev.t1) = 0
           /\ IF ev.inp.ok
              THEN /\ \A i \in 1..Len(NodeAt(ev.id).arms) :
                          ~ArmMatches(i, ev.inp.v)
                   /\ ~ev.r.ok
                   /\ ev.r.kind = "PatternMismatch"
              ELSE ev.r = ev.inp
           /\ ev.env1 = ev.env0
    /\ ev.f.k = "MatchBody" =>
           /\ Entries(NodeAt(ev.id).subject, ev.f.t0, ev.t1) = 1
           /\ ArmMatches(ev.f.arm, ev.f.subj)
           /\ \A i \in 1..Len(NodeAt(ev.id).arms) :
                  /\ i < ev.f.arm => ~ArmMatches(i, ev.f.subj)
                  /\ Entries(NodeAt(ev.id).arms[i].body, ev.f.t0, ev.t1)
                         = (IF i = ev.f.arm THEN 1 ELSE 0)
           /\ ev.r = ev.inp
           /\ ev.env1 = ev.env0

\* The with-update just returned went through its update loop on a Data
\* base: ev.f.base is the base value, ev.f.vals the update values
\* evaluated so far.
WithDone == ev.f.k = "WithLoop"

\* The updates that land in field i of the base: those naming it, a
\* name standing for the first field that carries it.
UpdatesOf(i) ==
    LET base == ev.f.base.fields
        upd == NodeAt(ev.id).updates
    IN  { u \in 1..Len(upd) :
              /\ upd[u].name = base[i][1]
              /\ \A j \in 1..(i - 1) : base[j][1] # base[i][1] }

FieldNames(fields) == { fields[i][1] : i \in 1..Len(fields) }

\* C9: with-update on a Data value returns a Data with the same type name
\* and the same field names in the same order; a field named by an update
\* holds the value evaluated for (the last such) update, every other
\* field holds the base's value; an update naming a field the base does
\* not have fails with FieldNotFound; the scopes the base was read from,
\* and with them the value bound to the base expression, are as before.
C9_WithUpdate ==
    WithDone =>
        LET base == ev.f.base
            upd == NodeAt(ev.id).updates
            basen == NodeAt(NodeAt(ev.id).base)
        IN  /\ IF ev.r.ok
               THEN /\ ev.r.v.t = "Data"
                    /\ ev.r.v.type_name = base.type_name
                    /\ Len(ev.r.v.fields) = Len(base.fields)
                    /\ Len(ev.f.vals) = Len(upd)
                    /\ \A u \in 1..Len(upd) :
                           upd[u].name \in FieldNames(base.fields)
                    /\ \A i \in 1..Len(base.fields) :
                           /\ ev.r.v.fields[i][1] = base.fields[i][1]
                           /\ ev.r.v.fields[i][2] =
                                  (IF UpdatesOf(i) = {}
                                   THEN base.fields[i][2]
                                   ELSE ev.f.vals[SetMax(UpdatesOf(i))])
               ELSE IF ev.inp.ok
               THEN /\ ev.r.kind = "FieldNotFound"
                    /\ upd[ev.f.i].name \notin FieldNames(base.fields)
               ELSE ev.r = ev.inp
            /\ basen.k = "Ident" => lookup(ev.env0, basen.name) = Some(base)
            /\ Len(ev.env1.scopes) >= Len(ev.env0.scopes)
            /\ SubSeq(ev.env1.scopes, 1, Len(ev.env0.scopes)) = ev.env0.scopes
            /\ (ev.r.ok \/ ev.inp.ok) => ev.env1 = ev.env0

\* A with-update that changed one field and left another alone.
C9_Witness ==
    /\ WithDone
    /\ ev.r.ok
    /\ \E i, j \in 1..Len(ev.f.base.fields) :
           /\ UpdatesOf(i) # {}
           /\ ev.r.v.fields[i][2] # ev.f.base.fields[i][2]
           /\ UpdatesOf(j) = {}
           /\ ev.f.base.fields[j][1] # ev.f.base.fields[i][1]

\* C10: once lower has run, no node of the arena, reachable from a root
\* or not, is a BinOp whose operator is Pipe.
C10_NoPipeInIr ==
    pc # "lower" =>
        \A i \in 1..Len(dag.nodes) :
            ~(dag.nodes[i].k = "BinOp" /\ dag.nodes[i].op = "Pipe")

\* A source with pipes, nested in either operand, has been lowered.
C10_Witness ==
    /\ pc # "lower"
    /\ src \in PipePrograms
    /\ \E i \in 1..Len(dag.nodes) : dag.nodes[i].k = "FnCall"

\* Option values are sequences of at most one element: the ids they hold.
RECURSIVE Concat(_)
Concat(ss) == IF ss = <<>> THEN <<>> ELSE Head(ss) \o Concat(Tail(ss))

\* The NodeIds stored inside an IR node, in the order of its fields.
ChildIds(node) ==
    CASE node.k = "BinOp" -> <<node.lhs, node.rhs>>
      [] node.k = "UnaryOp" -> <<node.operand>>
      [] node.k = "FnCall" ->
            <<node.func>> \o
            [i \in 1..Len(node.args) |-> node.args[i].value]
      [] node.k = "FieldAccess" -> <<node.object>>
      [] node.k \in {"Lambda", "FnDef"} ->
            Concat([i \in 1..Len(node.params) |-> node.params[i].default])
            \o <<node.body>>
      [] node.k = "List" -> node.elems
      [] node.k = "DataConstructor" ->
            [i \in 1..Len(node.fields) |-> node.fields[i].value]
      [] node.k = "WithUpdate" ->
            <<node.base>> \o
            [i \in 1..Len(node.updates) |-> node.updates[i].value]
      [] node.k = "If" ->
            <<node.cond, node.then_branch>> \o node.else_branch
      [] node.k = "Match" ->
            <<node.subject>> \o
            [i \in 1..Len(node.arms) |-> node.arms[i].body]
      [] node.k = "Block" -> node.stmts \o node.tail
      [] node.k = "Let" -> <<node.value>>
      [] node.k = "DataDef" ->
            Concat([i \in 1..Len(node.fields) |-> node.fields[i].default])
      [] OTHER -> <<>>

\* An IR node without the NodeIds it stores: its kind, its names and which
\* optional parts it has.
Blank(node) ==
    CASE node.k \in {"BinOp", "UnaryOp"} -> [k |-> node.k, op |-> node.op]
      [] node.k = "FnCall" ->
            [k |-> node.k,
             names |-> [i \in 1..Len(node.args) |-> node.args[i].name]]
      [] node.k = "FieldAccess" -> [k |-> node.k, field |-> node.field]
      [] node.k = "Lambda" ->
            [k |-> node.k,
             params |-> [i \in 1..Len(node.params) |->
                            <<node.params[i].name,
                              IsSome(node.params[i].default)>>]]
      [] node.k = "FnDef" ->
            [k |-> node.k, name |-> node.name,
             params |-> [i \in 1..Len(node.params) |->
                            <<node.params[i].name,
                              IsSome(node.params[i].default)>>]]
      [] node.k = "List" -> [k |-> node.k, n |-> Len(node.elems)]
      [] node.k = "DataConstructor" ->
            [k |-> node.k, name |-> node.name,
             names |-> [i \in 1..Len(node.fields) |-> node.fields[i].name]]
      [] node.k = "WithUpdate" ->
            [k |-> node.k,
             names |-> [i \in 1..Len(node.updates) |-> node.updates[i].name]]
      [] node.k = "If" -> [k |-> node.k, els |-> IsSome(node.else_branch)]
      [] node.k = "Match" ->
            [k |-> node.k,
             patterns |-> [i \in 1..Len(node.arms) |-> node.arms[i].pattern]]
      [] node.k = "Block" ->
            [k |-> node.k, n |-> Len(node.stmts), tail |-> IsSome(node.tail)]
      [] node.k = "Let" -> [k |-> node.k, name |-> node.name]
      [] node.k = "DataDef" ->
            [k |-> node.k, name |-> node.name,
             fields |-> [i \in 1..Len(node.fields) |->
                            <<node.fields[i].name,
                              IsSome(node.fields[i].default)>>]]
      [] OTHER -> node

\* The tree below node id of an arena, NodeIds unfolded.
RECURSIVE Shape(_, _)
Shape(nodes, id) ==
    LET node == nodes[id + 1]
        kids == ChildIds(node)
    IN  [node |-> Blank(node),
         kids |-> [i \in 1..Len(kids) |-> Shape(nodes, kids[i])]]

DagShape(d) == [i \in 1..Len(d.roots) |-> Shape(d.nodes, d.roots[i])]

\* The source has a pipe outside every call: `a |> f`, `a |> f(b)`.
IsPipeSource == src \in PipePrograms \cup PipeEquivPrograms

\* C11: a lowered program has the call structure of the same program with
\* its pipes written out as calls, `a |> f` as f(a) and `a |> f(b, c)` as
\* f(a, b, c), the piped value first and unnamed, the other arguments in
\* order with their names, chains nesting to the left; a pipe and its
\* written-out call evaluate to the same value.
C11_PipeShape ==
    /\ pc \notin {"lex", "parse", "exit", "lower"} =>
           DagShape(dag) = DagShape(lower(UnpipedProgram(src)))
    /\ (pc = "done" /\ src \in PipeEquivPrograms /\ Unwrap(result).ok) =>
           Unwrap(result).v.items[1] = Unwrap(result).v.items[2]

\* `1 |> g |> g` was lowered to g(g(1)) and both gave 1.
C11_Witness ==
    /\ pc = "done"
    /\ src \in PipeEquivPrograms
    /\ src[3].expr.elems[1] =
           BinOp(BinOp(Num(1), "Pipe", Ident("g")), "Pipe", Ident("g"))
    /\ src[3].expr.elems[2] =
           FnCall(Ident("g"), <<Pos(FnCall(Ident("g"), <<Pos(Num(1))>>))>>)
    /\ Unwrap(result) = Ok(VList(<<VNum(1), VNum(1)>>))

\* C12: in a lowered Dag every NodeId stored in a node is the index of a
\* node inserted earlier (0 <= child < own id), and every root is an index
\* into the arena.
C12_ArenaAcyclic ==
    pc # "lower" =>
        /\ \A i \in 1..Len(dag.nodes) :
               LET kids == ChildIds(dag.nodes[i])
               IN  \A j \in 1..Len(kids) : kids[j] >= 0 /\ kids[j] < i - 1
        /\ \A i \in 1..Len(dag.roots) :
               dag.roots[i] >= 0 /\ dag.roots[i] < Len(dag.nodes)

\* A lowered Dag in which calls, defaults, blocks and match arms store ids.
C12_Witness ==
    /\ pc # "lower"
    /\ Len(dag.roots) >= 2
    /\ \E i, j, k \in 1..Len(dag.nodes) :
           /\ dag.nodes[i].k = "FnDef"
           /\ Len(ChildIds(dag.nodes[i])) = 2
           /\ dag.nodes[j].k = "Match"
           /\ Len(ChildIds(dag.nodes[j])) >= 2
           /\ dag.nodes[k].k = "Block"
           /\ Len(ChildIds(dag.nodes[k])) >= 1

\* Frames from which eval_node is entered on a node that is not stored in
\* the frame's own node: a function body or a parameter default.
CallFrames == {"CallBody", "MapLoop", "ResolveDefaults"}

\* The same node is under evaluation twice, one activation inside the
\* other, in the same environment: the inner one repeats the outer.
RepeatedActivation ==
    \E i, j \in 1..Len(stack) :
        /\ i < j
        /\ stack[i].id = stack[j].id
        /\ stack[i].k = stack[j].k
        /\ stack[i].env0 = stack[j].env0

\* C13 as claimed: evaluation never loops, also with user functions and
\* lambdas: no activation repeats an enclosing one and the native stack
\* is never used up.
C13_NeverLoops == ~RepeatedActivation /\ pc # "overflow"

\* C13: eval_node recursion follows the stored NodeIds downward: except
\* where a call enters a function body or a parameter default, the node
\* an activation evaluates has a smaller id than the node of the
\* activation that asked for it, so without calls the nesting is bounded
\* by the size of the arena.
C13_DescentBetweenCalls ==
    /\ \A i \in 1..(Len(stack) - 1) :
           stack[i].k \notin CallFrames => stack[i + 1].id < stack[i].id
    /\ (pc = "run" /\ ctl.m = "eval" /\ stack # <<>>
           /\ Top.k \notin CallFrames) => ctl.id < Top.id
    /\ (\A i \in 1..Len(stack) : stack[i].k \notin CallFrames) =>
           Len(stack) <= Len(dag.nodes)

\* Inside a function body, three activations deep.
C13_Witness ==
    /\ pc = "run"
    /\ ctl.m = "eval"
    /\ \E i \in 1..Len(stack) :
           /\ stack[i].k = "CallBody"
           /\ Len(stack) >= i + 3
           /\ \A j \in (i + 1)..Len(stack) : stack[j].k \notin CallFrames

\* C14: evaluation never panics on user input: eval returns a value or
\* an EvalError, whatever i64 operands `+`, `-`, `*`, `/` and unary `-`
\* are given, and pop_scope is not reached on the global scope alone.
C14_NeverPanics == pc # "panic"

\* lower records no error: nothing pushes to LowerCtx::errors.
ir_errors == <<>>

\* C15 as claimed: a stage runs only once the stages before it reported no
\* error: the parser after a clean lexer, lowering after clean lexing and
\* parsing, evaluation after clean lowering.
C15_Gating ==
    /\ "parse" \in front.ran => front.lex_errors = <<>>
    /\ "lower" \in front.ran =>
           front.lex_errors = <<>> /\ front.parse_errors = <<>>
    /\ "eval" \in front.ran => "lower" \in front.ran /\ ir_errors = <<>>

\* C15: the parser runs on the tokens of the lexer whatever the lexer
\* reported, and when it returns the errors of both are handed on
\* together; a parser that panics hands on nothing and nothing is lowered;
\* lowering runs only once lexing and parsing together reported no error,
\* and evaluation only after lowering, which reports none.
C15_GatingAfterSyntax ==
    /\ ("lex" \in front.ran /\ pc # "parse") =>
           \/ "parse" \in front.ran
           \/ pc = "panic" /\ src = <<>> /\ "lower" \notin front.ran
    /\ "parse" \in front.ran =>
           /\ "lex" \in front.ran
           /\ Len(front.parse_errors) >= Len(front.lex_errors)
           /\ SubSeq(front.parse_errors, 1, Len(front.lex_errors))
                  = front.lex_errors
           /\ front.parse_errors # <<>> => pc = "exit"
    /\ "lower" \in front.ran =>
           front.lex_errors = <<>> /\ front.parse_errors = <<>>
    /\ "eval" \in front.ran => "lower" \in front.ran /\ ir_errors = <<>>
    /\ pc = "exit" => front.parse_errors # <<>> /\ "lower" \notin front.ran

\* The parser has run on the tokens of a source with a lexer error and
\* has found an error of its own; nothing was lowered.
C15_Witness ==
    /\ pc = "exit"
    /\ front.lex_errors # <<>>
    /\ Len(front.parse_errors) > Len(front.lex_errors)
    /\ src # <<>>

\* ------------------------------------------------------------------------
\* Env on its own: any sequence of push_scope, pop_scope and define on
\* Env::new().  trace is the sequence of the operations applied.
\* ------------------------------------------------------------------------
MaxEnvOps == 5

EnvNames == {"x", "y"}

EnvValues == {VNum(1), VNum(2)}

EnvInit ==
    /\ pc = "env"
    /\ env = Env_new
    /\ trace = <<>>
    /\ src = <<>>
    /\ dag = [nodes |-> <<>>, roots |-> <<>>]
    /\ data_types = EmptyScope
    /\ stack = <<>>
    /\ ctl = ContCtl
    /\ ri = 1
    /\ last = VUnit
    /\ result = None
    /\ ev = NoEvent
    /\ front = NoSource

EnvStatic ==
    UNCHANGED <<src, dag, data_types, stack, ctl, ri, last, ev, front>>

\* env.push_scope()
EnvPushScope ==
    /\ pc = "env"
    /\ Len(trace) < MaxEnvOps
    /\ env' = push_scope(env)
    /\ trace' = Append(trace, [op |-> "push"])
    /\ UNCHANGED <<pc, result>>
    /\ EnvStatic

\* env.pop_scope(): the assertion fails on the global scope alone.
EnvPopScope ==
    /\ pc = "env"
    /\ Len(trace) < MaxEnvOps
    /\ IF CanPop(env)
       THEN /\ env' = pop_scope(env)
            /\ trace' = Append(trace, [op |-> "pop"])
            /\ UNCHANGED <<pc, result>>
       ELSE /\ pc' = "panic"
            /\ result' = Some(Err("Panic", "cannot pop the global scope",
                                  None))
            /\ UNCHANGED <<env, trace>>
    /\ EnvStatic

\* env.define(name, value)
EnvDefine ==
    /\ pc = "env"
    /\ Len(trace) < MaxEnvOps
    /\ \E x \in EnvNames, v \in EnvValues :
           /\ env' = define(env, x, v)
           /\ trace' = Append(trace, [op |-> "define", name |-> x,
                                      value |-> v])
    /\ UNCHANGED <<pc, result>>
    /\ EnvStatic

EnvNext ==
    \/ EnvPushScope
    \/ EnvPopScope
    \/ EnvDefine

EnvSpec == EnvInit /\ [][EnvNext]_vars

\* What the operations ops[1..i] leave bound to x, read off the operations
\* backwards: closed counts the scopes that were popped again.
RECURSIVE BoundBy(_, _, _, _)
BoundBy(ops, i, closed, x) ==
    IF i = 0 THEN None
    ELSE CASE ops[i].op = "pop" -> BoundBy(ops, i - 1, closed + 1, x)
           [] ops[i].op = "push" ->
                  BoundBy(ops, i - 1, IF closed > 0 THEN closed - 1 ELSE 0, x)
           [] ops[i].op = "define" ->
                  IF closed = 0 /\ ops[i].name = x THEN Some(ops[i].value)
                  ELSE BoundBy(ops, i - 1, closed, x)

\* The scopes opened and not closed again by ops, the global one included.
LiveScopes(ops) ==
    1 + Cardinality({i \in 1..Len(ops) : ops[i].op = "push"})
      - Cardinality({i \in 1..Len(ops) : ops[i].op = "pop"})

\* C16: Env is a stack of scopes: lookup gives the value defined last for
\* the name in the innermost live scope that binds it, or None; define
\* touches the innermost scope only; push_scope, define, pop_scope leaves
\* every lookup as it was; pop_scope on the global scope alone panics and
\* removes nothing.
C16_ScopeStack ==
    pc \in {"env", "panic"} =>
        /\ Len(env.scopes) = LiveScopes(trace)
        /\ \A x \in EnvNames \cup {"z"} :
               lookup(env, x) = BoundBy(trace, Len(trace), 0, x)
        /\ \A x \in EnvNames, v \in EnvValues :
               /\ Front(define(env, x, v).scopes) = Front(env.scopes)
               /\ lookup(define(env, x, v), x) = Some(v)
               /\ \A y \in (EnvNames \cup {"z"}) \ {x} :
                      lookup(define(env, x, v), y) = lookup(env, y)
               /\ \A y \in EnvNames \cup {"z"} :
                      lookup(pop_scope(define(push_scope(env), x, v)), y)
                          = lookup(env, y)
               /\ pop_scope(define(push_scope(env), x, v)) = env
        /\ pc = "panic" =>
               /\ ~CanPop(env)
               /\ Len(env.scopes) = 1
               /\ \A x \in EnvNames :
                      lookup(env, x) = BoundBy(trace, Len(trace), 0, x)
        /\ (pc = "env" /\ ~CanPop(env)) => Len(env.scopes) = 1

\* An inner scope shadows x, the outer binding is back after the pop, and
\* a pop of the global scope has panicked.
C16_Witness ==
    /\ pc = "panic"
    /\ Len(trace) >= 4
    /\ \E i, j \in 1..Len(trace) :
           /\ i < j
           /\ trace[i].op = "define"
           /\ trace[j].op = "define"
           /\ trace[j].name = trace[i].name
           /\ trace[j].value # trace[i].value
           /\ \E k \in (i + 1)..(j - 1) : trace[k].op = "push"
           /\ \E k \in (j + 1)..Len(trace) : trace[k].op = "pop"
           /\ lookup(env, trace[i].name) = Some(trace[i].value)

\* C17: whatever the lexer reports, the token list it returns holds
\* exactly one Eof token and that token is the last one.
C17_OneEofLast ==
    "lex" \in front.ran =>
        /\ front.tokens # <<>>
        /\ front.tokens[Len(front.tokens)].kind = "Eof"
        /\ \A i \in 1..(Len(front.tokens) - 1) : front.tokens[i].kind # "Eof"
        /\ front.tokens[Len(front.tokens)].start = Len(front.source)

\* The lexer has reported errors and has returned tokens of both kinds.
C17_Witness ==
    /\ "lex" \in front.ran
    /\ Len(front.lex_errors) >= 2
    /\ \E i, j \in 1..Len(front.tokens) :
           /\ front.tokens[i].kind = "Error"
           /\ front.tokens[j].kind \notin {"Error", "Eof"}

\* The unit tables of the language.
LengthUnits == {"mm", "cm", "m", "in"}

AngleUnits == {"deg", "rad"}

\* The end of the longest run of characters of cs that starts at byte p.
RunEnd(source, p, cs) ==
    CHOOSE e \in p..Len(source) :
        /\ \A j \in (p + 1)..e : source[j] \in cs
        /\ e = Len(source) \/ source[e + 1] \notin cs

\* The end of the digits, with a fraction if a digit follows the point,
\* of the number that starts at byte p.
NumberEnd(source, p) ==
    LET e == RunEnd(source, p, AsciiDigits)
    IN  IF e + 2 <= Len(source) /\ source[e + 1] = "."
           /\ source[e + 2] \in AsciiDigits
        THEN RunEnd(source, e + 1, AsciiDigits)
        ELSE e

NumberKinds == {"IntLit", "FloatLit", "LengthLit", "AngleLit"}

KeywordKinds ==
    {"Let", "Data", "Fn", "Enum", "If", "Else", "Match", "With", "True",
     "False"}

\* C18: after the digits of a number the longest run of letters is looked
\* up in the unit tables: a length unit gives a length literal, an angle
\* unit an angle literal, both ending with the run; any other run is no
\* error: the number token ends before the run, is a plain integer or
\* float, and the next token starts at the run and comes from the
\* identifier scan.
C18_UnitSuffix ==
    "lex" \in front.ran =>
        \A k \in 1..Len(front.tokens) :
            front.tokens[k].kind \in NumberKinds =>
                LET t == front.tokens[k]
                    num_end == NumberEnd(front.source, t.start)
                    run_end == RunEnd(front.source, num_end,
                                      AsciiLower \cup AsciiUpper)
                    run == Str(slice(front.source, num_end, run_end))
                    is_float == "." \in {front.source[j] :
                                            j \in (t.start + 1)..num_end}
                    next == front.tokens[k + 1]
                IN  /\ front.source[t.start + 1] \in AsciiDigits
                    /\ run \in LengthUnits =>
                           t.kind = "LengthLit" /\ t.end = run_end
                    /\ run \in AngleUnits =>
                           t.kind = "AngleLit" /\ t.end = run_end
                    /\ run \notin LengthUnits \cup AngleUnits =>
                           /\ t.kind = IF is_float THEN "FloatLit"
                                       ELSE "IntLit"
                           /\ t.end = num_end
                           /\ \A i \in 1..Len(front.lex_errors) :
                                  \/ front.lex_errors[i].end <= t.start
                                  \/ front.lex_errors[i].start >= run_end
                           /\ run # "" =>
                                  /\ next.start = num_end
                                  /\ next.end >= run_end
                                  /\ next.kind \in {"Ident"} \cup KeywordKinds

\* `10min`: the integer 10, then the identifier min, and no error.
C18_Witness ==
    /\ "lex" \in front.ran
    /\ front.lex_errors = <<>>
    /\ Len(front.tokens) = 3
    /\ front.tokens[1].kind = "IntLit"
    /\ Token_text(front.source, front.tokens[1]) = "10"
    /\ front.tokens[2].kind = "Ident"
    /\ Token_text(front.source, front.tokens[2]) = "min"

\* The levels of the infix operators, from the loosest to the tightest.
Level(kind) ==
    CASE kind = "PipeGt" -> 1
      [] kind = "PipePipe" -> 2
      [] kind = "AmpAmp" -> 3
      [] kind \in {"EqEq", "BangEq"} -> 4
      [] kind \in {"Lt", "LtEq", "Gt", "GtEq"} -> 5
      [] kind \in {"Plus", "Minus"} -> 6
      [] kind \in {"Star", "Slash"} -> 7

InfixKinds ==
    {"PipeGt", "PipePipe", "AmpAmp", "EqEq", "BangEq", "Lt", "LtEq", "Gt",
     "GtEq", "Plus", "Minus", "Star", "Slash"}

PrefixKinds == {"Minus", "Bang"}

\* An operand of a sequence: prefix operators, then a name or an integer,
\* read from token i on; the operand with its prefix operators applied
\* and the index of the token after it, or None.
RECURSIVE Operand(_, _, _)
Operand(source, tokens, i) ==
    LET t == tokens[i]
        rest == Operand(source, tokens, i + 1)
    IN  CASE t.kind = "Ident" ->
                 Some([v |-> Ident(Token_text(source, t)), next |-> i + 1])
          [] t.kind = "IntLit" ->
                 Some([v |-> IntLit(parse_i64(slice(source, t.start, t.end))),
                       next |-> i + 1])
          [] t.kind \in PrefixKinds /\ IsSome(rest) ->
                 Some([v |-> UnaryOp(UnaryOpKind(t.kind), Unwrap(rest).v),
                       next |-> Unwrap(rest).next])
          [] OTHER -> None

\* The rest of a sequence from token i on: operands joined by infix
\* operators up to the end of the tokens, or None.
RECURSIVE Chain(_, _, _, _, _)
Chain(source, tokens, i, operands, ops) ==
    LET operand == Operand(source, tokens, i + 1)
    IN  CASE tokens[i].kind = "Eof" ->
                 Some([operands |-> operands, ops |-> ops])
          [] tokens[i].kind \in InfixKinds /\ IsSome(operand) ->
                 Chain(source, tokens, Unwrap(operand).next,
                       Append(operands, Unwrap(operand).v),
                       Append(ops, tokens[i].kind))
          [] OTHER -> None

\* The operands and the infix operators of a source that is one sequence
\* of operands joined by infix operators, or None.
Sequence(source, tokens) ==
    LET first == Operand(source, tokens, 1)
    IN  IF IsSome(first)
        THEN Chain(source, tokens, Unwrap(first).next, <<Unwrap(first).v>>,
                   <<>>)
        ELSE None

\* The grouping of a sequence: it splits at the last operator of the
\* lowest level, so that higher levels group first and equal levels group
\* from the left.
RECURSIVE Grouping(_, _)
Grouping(operands, ops) ==
    IF ops = <<>> THEN operands[1]
    ELSE LET k == CHOOSE k \in 1..Len(ops) :
                      /\ \A j \in 1..k : Level(ops[j]) >= Level(ops[k])
                      /\ \A j \in (k + 1)..Len(ops) :
                             Level(ops[j]) > Level(ops[k])
         IN  BinOp(Grouping(SubSeq(operands, 1, k), SubSeq(ops, 1, k - 1)),
                   BinOpKind(ops[k]),
                   Grouping(SubSeq(operands, k + 1, Len(operands)),
                            SubSeq(ops, k + 1, Len(ops))))

\* C19: a source that is a sequence of operands joined by infix operators
\* parses without a parse error into one expression statement, grouped by
\* the ladder pipe < || < && < equality < relational < additive <
\* multiplicative: a higher level groups before a lower one, equal levels
\* group from the left, and a prefix operator belongs to its operand.
C19_Ladder ==
    "parse" \in front.ran =>
        LET s == Sequence(front.source, front.tokens)
        IN  IsSome(s) =>
                /\ front.parse_errors = front.lex_errors
                /\ src = <<ExprStmt(Grouping(Unwrap(s).operands,
                                             Unwrap(s).ops))>>

\* A sequence was parsed in which the level rises from one operator to the
\* next, falls from one to the next, and returns to a level seen before.
C19_Witness ==
    /\ "parse" \in front.ran
    /\ LET s == Sequence(front.source, front.tokens)
       IN  /\ IsSome(s)
           /\ LET ops == Unwrap(s).ops
              IN  /\ Len(ops) >= 4
                  /\ \E j \in 1..(Len(ops) - 1) :
                         Level(ops[j]) < Level(ops[j + 1])
                  /\ \E j \in 1..(Len(ops) - 1) :
                         Level(ops[j]) > Level(ops[j + 1])
                  /\ \E j, k \in 1..Len(ops) :
                         j + 1 < k /\ Level(ops[j]) = Level(ops[k])
                  /\ src = <<ExprStmt(Grouping(Unwrap(s).operands, ops))>>

\* C20: a Newline token after a complete expression or let value (the text
\* before it parses without an error, ends in an expression or let
\* statement and not in the dot of a field access) ends the statement:
\* the statements of the file are those of the text before the newline
\* followed by those of the text after it.
C20_NewlineSeparates ==
    "parse" \in front.ran =>
        \A k \in 1..Len(front.tokens) :
            front.tokens[k].kind = "Newline" =>
                LET p == front.tokens[k].start
                    before == syntax_parse(SubSeq(front.source, 1, p))
                    after == syntax_parse(SubSeq(front.source, p + 2,
                                                 Len(front.source)))
                IN  (/\ before.errors = <<>>
                     /\ k > 1
                     /\ front.tokens[k - 1].kind # "Dot"
                     /\ before.ast # <<>>
                     /\ Last(before.ast).s \in {"Expr", "Let"})
                        => src = before.ast \o after.ast

\* The first position after t0 at which trace holds node id, 0 if none.
FirstEntry(id, t0) ==
    LET ps == {p \in (t0 + 1)..Len(trace) : trace[p] = id}
    IN  IF ps = {} THEN 0 ELSE CHOOSE p \in ps : \A q \in ps : p <= q

\* eval_call has run a builtin on the arguments of the call that eval_node
\* returned from last.
BuiltinRan == ev.f.k = "BuiltinDone"

\* The arguments of the call that eval_node returned from last.
BuiltinCallArgs == NodeAt(ev.id).args

\* C21 (as the code has it): when the callee is a BuiltinFn, the arguments
\* of the call are evaluated left to right, each exactly as written; the
\* builtin receives one value per argument, in source order, whether or not
\* an argument carries a name (a name is ignored, not rejected); a result Ok
\* is returned as it is, and an error of the builtin keeps its kind, has the
\* span of the call when it had none and its own span otherwise, and has
\* its message prefixed with the builtin's name and ": ".
C21_BuiltinCall ==
    BuiltinRan =>
        /\ Len(ev.f.args) = Len(BuiltinCallArgs)
        /\ \A i \in 1..Len(BuiltinCallArgs) :
               /\ FirstEntry(BuiltinCallArgs[i].value, ev.f.t0) > 0
               /\ \A j \in 1..(i - 1) :
                      FirstEntry(BuiltinCallArgs[j].value, ev.f.t0)
                          < FirstEntry(BuiltinCallArgs[i].value, ev.f.t0)
               /\ NodeAt(BuiltinCallArgs[i].value).k = "IntLit" =>
                      ev.f.args[i] = VInt(NodeAt(BuiltinCallArgs[i].value).n)
        /\ ev.inp.ok => ev.r = ev.inp
        /\ ~ev.inp.ok =>
               /\ ev.r.ok = FALSE
               /\ ev.r.kind = ev.inp.kind
               /\ ev.r.msg = ev.f.name \o ": " \o ev.inp.msg
               /\ ev.r.span = IF ev.inp.span = None THEN Some(ev.id)
                              ELSE ev.inp.span

\* vec3(z = 1, 2, x = 0) ran and gave the vector (1, 2, 0).
C21_Witness ==
    /\ BuiltinRan
    /\ ev.f.name = "vec3"
    /\ Len(BuiltinCallArgs) = 3
    /\ BuiltinCallArgs[1].name = Some("z")
    /\ BuiltinCallArgs[3].name = Some("x")
    /\ ev.r = Ok(VVec3(IntToF(Big(1)), IntToF(Big(2)), IntToF(Big(0))))

\* C21 (as stated): a builtin does not accept a named argument, so no
\* builtin runs on a call in which an argument carries a name.
C21_NamedArgsRejected ==
    BuiltinRan => \A i \in 1..Len(BuiltinCallArgs) : BuiltinCallArgs[i].name = None

\* The arm of a Match has been chosen and its body is about to run.
ArmChosen == pc = "run" /\ stack # <<>> /\ Top.k = "MatchBody" /\ ctl.m = "eval"

\* The environment the patterns of the Match were tried in: the arm's scope
\* is the innermost scope of env.
MatchTimeEnv == [scopes |-> Front(env.scopes)]

\* The name of an identifier pattern is bound to an EnumVariant in e.
IsEnumConstant(e, pattern) ==
    /\ pattern.p = "Ident"
    /\ IsSome(lookup(e, pattern.name))
    /\ Unwrap(lookup(e, pattern.name)).t = "EnumVariant"

\* C22: an identifier pattern whose name is bound, when the match runs, to
\* an EnumVariant is a comparison: its arm is chosen only for a subject
\* equal to that variant, and the arm's scope stays empty; an identifier
\* pattern whose name is unbound or bound to any other value is never
\* passed over, and its arm's scope holds the subject under that name and
\* nothing else.
C22_IdentPattern ==
    /\ ArmChosen =>
           LET arms == NodeAt(Top.id).arms
               pattern == arms[Top.arm].pattern
           IN  /\ IsEnumConstant(MatchTimeEnv, pattern) =>
                      /\ Top.subj = Unwrap(lookup(MatchTimeEnv, pattern.name))
                      /\ Last(env.scopes) = EmptyScope
               /\ (pattern.p = "Ident" /\ ~IsEnumConstant(MatchTimeEnv, pattern))
                      => /\ DOMAIN Last(env.scopes) = {pattern.name}
                         /\ Last(env.scopes)[pattern.name] = Top.subj
               /\ \A j \in 1..(Top.arm - 1) :
                      arms[j].pattern.p = "Ident" =>
                          /\ IsEnumConstant(MatchTimeEnv, arms[j].pattern)
                          /\ Top.subj # Unwrap(lookup(MatchTimeEnv,
                                                      arms[j].pattern.name))
    /\ (ev.f.k = "MatchSubject" /\ ~ev.r.ok /\ ev.r.kind = "PatternMismatch"
            /\ ev.r.span = Some(ev.id)) =>
           \A j \in 1..Len(NodeAt(ev.id).arms) :
               NodeAt(ev.id).arms[j].pattern.p = "Ident" =>
                   IsEnumConstant(ev.env1, NodeAt(ev.id).arms[j].pattern)

\* The subject Green passed over the arm `Red` and was captured by `other`.
C22_Witness ==
    /\ ArmChosen
    /\ Top.arm = 3
    /\ NodeAt(Top.id).arms[1].pattern = PIdent("Red")
    /\ NodeAt(Top.id).arms[3].pattern = PIdent("other")
    /\ Top.subj = VEnumVariant("Color", "Green")
    /\ Last(env.scopes)["other"] = Top.subj

\* The subject Red chose the arm `Red`, which binds nothing.
C22_WitnessConstant ==
    /\ ArmChosen
    /\ Top.arm = 1
    /\ NodeAt(Top.id).arms[1].pattern = PIdent("Red")
    /\ Top.subj = VEnumVariant("Color", "Red")

\* resolve_args is about to evaluate the default of parameter Top.i.
DefaultPending ==
    pc = "run" /\ stack # <<>> /\ Top.k = "ResolveDefaults" /\ ctl.m = "eval"

\* The default of parameter Top.i has been evaluated.
DefaultEvaluated ==
    pc = "run" /\ stack # <<>> /\ Top.k = "ResolveDefaults" /\ ctl.m = "ret"

\* The node of the default that resolve_args is at.
DefaultNode == NodeAt(Unwrap(Top.fn.params[Top.i].default))

\* C23: the default of a parameter is evaluated in the environment of the
\* caller as it is at the call, not in the environment the function
\* captured: a default that is a name gives the caller's binding of that
\* name, and UndefinedName when the caller has none, whatever the closure
\* environment binds.
C23_DefaultsInCallerEnv ==
    /\ DefaultPending => env = Top.env0
    /\ (DefaultEvaluated /\ DefaultNode.k = "Ident") =>
           LET here == lookup(Top.env0, DefaultNode.name)
           IN  IF IsSome(here)
               THEN ctl.r = Ok(Unwrap(here))
               ELSE ~ctl.r.ok /\ ctl.r.kind = "UndefinedName"

\* The default `d`, bound where the lambda was made and not where it is
\* called, failed with UndefinedName.
C23_Witness ==
    /\ DefaultEvaluated
    /\ DefaultNode.k = "Ident"
    /\ lookup(Top.fn.closure_env, DefaultNode.name) = Some(VNum(5))
    /\ lookup(Top.env0, DefaultNode.name) = None
    /\ ~ctl.r.ok
    /\ ctl.r.kind = "UndefinedName"

\* The default `c`, bound only at the call, gave the caller's 3; the
\* default `s` gave the caller's 2 and not the closure's 1.
C23_WitnessCallSite ==
    /\ DefaultEvaluated
    /\ DefaultNode.k = "Ident"
    /\ \/ /\ lookup(Top.fn.closure_env, DefaultNode.name) = None
          /\ ctl.r = Ok(VNum(3))
       \/ /\ lookup(Top.fn.closure_env, DefaultNode.name) = Some(VNum(1))
          /\ ctl.r = Ok(VNum(2))

\* The source is one block with no block inside it, parsed without error.
OneFlatBlock ==
    /\ "parse" \in front.ran
    /\ front.parse_errors = <<>>
    /\ Len(src) = 1
    /\ src[1].s = "Expr"
    /\ src[1].expr.e = "Block"
    /\ Len(front.tokens) >= 3
    /\ front.tokens[1].kind = "LBrace"
    /\ front.tokens[Len(front.tokens) - 1].kind = "RBrace"
    /\ \A k \in 2..(Len(front.tokens) - 2) :
           front.tokens[k].kind \notin {"LBrace", "RBrace"}

\* The kind of the last token before position k that is not a Newline.
RECURSIVE LastKindBefore(_, _)
LastKindBefore(tokens, k) ==
    IF k <= 1 THEN "none"
    ELSE IF tokens[k - 1].kind = "Newline" THEN LastKindBefore(tokens, k - 1)
    ELSE tokens[k - 1].kind

\* C24: the last expression statement of a block is its tail only if
\* nothing follows it: a block whose last statement is followed by a
\* semicolon has no tail, and a block with a tail has that expression as
\* the last thing before its closing brace.
C24_TailOnlyWithoutSemicolon ==
    OneFlatBlock =>
        (LastKindBefore(front.tokens, Len(front.tokens) - 1) = "Semicolon"
             => src[1].expr.tail = None)

\* The parser has panicked on a slice of the source.
SlicePanicked == pc = "panic" /\ "lower" \notin front.ran /\ "lex" \in front.ran

\* C25: whatever the source holds, characters of more than one byte outside
\* strings and comments included, every span the front end slices the
\* source with starts and ends on a character boundary: lexing followed by
\* parsing never panics on a slice.
C25_SlicesOnBoundaries == ~SlicePanicked

\* C26: whenever eval_node returns, with a value or with an error, and
\* whatever the kind of the node, the Env has as many scopes as it had when
\* eval_node was entered on that node.
C26_ScopesBalanced ==
    ev # NoEvent => Len(ev.env1.scopes) = Len(ev.env0.scopes)

\* The same for the returns with a value only.
C26_ScopesBalancedOnOk ==
    (ev # NoEvent /\ ev.r.ok) => Len(ev.env1.scopes) = Len(ev.env0.scopes)

\* The arguments of the call at the innermost activation that are meant
\* for parameter slot j.
ArgsMeantFor(j) ==
    {i \in 1..Len(CallArgs(Top.id)) :
         SlotOf(Top.fn.params, CallArgs(Top.id), i) = j}

\* C27: when the body of a user function starts, each parameter slot has
\* received its value from at most one argument of the call: no call in
\* which two arguments are meant for the same slot (the same name twice, or
\* a positional and a named argument for one slot) gets to the body with
\* the earlier value overwritten.
C27_OneArgumentPerSlot ==
    (pc = "run" /\ ctl.m = "eval" /\ stack # <<>> /\ Top.k = "CallBody") =>
        \A j \in 1..Len(Top.fn.params) : Cardinality(ArgsMeantFor(j)) <= 1

\* eval_node is about to be called from the BinOp arm in phase k.
BinOpCalls(k) == pc = "run" /\ stack # <<>> /\ Top.k = k /\ ctl.m = "eval"

\* C28: a BinOp evaluates its left operand first; only when that has
\* returned a value does it evaluate the right operand, and only when that
\* has returned a value too is the operator applied to the two values.  An
\* error of the left operand is returned without the right one being
\* evaluated; an error of the right operand is returned whatever the left
\* value and the operator are: `&&` and `||` do not short-circuit, so
\* `false && e` and `true || e` evaluate e and fail when e fails; on two
\* Bools they give the conjunction and the disjunction.
C28_StrictBinOp ==
    /\ BinOpCalls("BinOpLhs") =>
           /\ ctl.id = NodeAt(Top.id).lhs
           /\ trace[Len(trace)] = Top.id
    /\ BinOpCalls("BinOpRhs") =>
           /\ ctl.id = NodeAt(Top.id).rhs
           /\ ev.id = NodeAt(Top.id).lhs
           /\ ev.r = Ok(Top.l)
           /\ trace[Top.t0 + 2] = NodeAt(Top.id).lhs
    /\ ev.f.k = "BinOpLhs" =>
           /\ ~ev.inp.ok
           /\ ev.r = ev.inp
           /\ ev.t1 >= ev.f.t0 + 2
           /\ trace[ev.f.t0 + 2] = NodeAt(ev.id).lhs
    /\ (ev.f.k = "BinOpRhs" /\ ~ev.inp.ok) => ev.r = ev.inp
    /\ (ev.f.k = "BinOpRhs" /\ ev.inp.ok
            /\ NodeAt(ev.id).op \in {"And", "Or"}) =>
           IF ev.f.l.t = "Bool" /\ ev.inp.v.t = "Bool"
           THEN ev.r = Ok(VBool(IF NodeAt(ev.id).op = "And"
                                THEN ev.f.l.b /\ ev.inp.v.b
                                ELSE ev.f.l.b \/ ev.inp.v.b))
           ELSE ~ev.r.ok /\ ev.r.kind = "TypeError"

\* `false && nope` evaluated nope and returned its UndefinedName error.
C28_Witness ==
    /\ ev.f.k = "BinOpRhs"
    /\ NodeAt(ev.id).op = "And"
    /\ ev.f.l = VBool(FALSE)
    /\ NodeAt(NodeAt(ev.id).rhs).k = "Ident"
    /\ ~ev.r.ok
    /\ ev.r.kind = "UndefinedName"
    /\ trace[Len(trace)] = NodeAt(ev.id).rhs

\* map is about to run the body of a user function on item Top.i.
MapBodyStarts ==
    /\ pc = "run" /\ stack # <<>> /\ Top.k = "MapLoop" /\ ctl.m = "eval"
    /\ Top.func.t = "Function"

\* C29: a user function called by map on one item is called as f(item)
\* would be: its body starts only if the one argument fits its parameters
\* (there is a first parameter, and every further parameter has a default;
\* otherwise the call is an ArityMismatch), and then every parameter is
\* bound, the first to the item and each of the others to the value of its
\* default.
C29_MapCallsLikeDirectCall ==
    MapBodyStarts =>
        LET params == Top.func.params
        IN  /\ Len(params) >= 1
            /\ \A j \in 2..Len(params) : IsSome(params[j].default)
            /\ DOMAIN Last(env.scopes) = {params[j].name : j \in 1..Len(params)}
            /\ Last(env.scopes)[params[1].name] = Top.items[Top.i]

\* What does hold: the body starts with the first parameter, if there is
\* one, bound to the item, and no other parameter bound.
C29_MapBindsFirstOnly ==
    MapBodyStarts =>
        LET params == Top.func.params
        IN  Last(env.scopes) =
                IF params = <<>> THEN EmptyScope
                ELSE [n \in {params[1].name} |-> Top.items[Top.i]]

\* ------------------------------------------------------------------------
\* The loops of the front end, one iteration a step: `while !self.at_end()
\* { self.scan_token(); }` of Lexer::run, then the loop of parse_file.
\* ctl holds the Lexer (lx) and then the Parser (px) with the statements
\* parsed so far; trace holds the positions the iterations started at.
\* ------------------------------------------------------------------------
FrontInit ==
    /\ pc = "scan"
    /\ front \in {[NoSource EXCEPT !.source = t] : t \in Sources}
    /\ ctl = [lx |-> Lexer_new]
    /\ trace = <<>>
    /\ src = <<>>
    /\ dag = [nodes |-> <<>>, roots |-> <<>>]
    /\ env = Env_new
    /\ data_types = EmptyScope
    /\ stack = <<>>
    /\ ri = 1
    /\ last = VUnit
    /\ result = None
    /\ ev = NoEvent

FrontStatic == UNCHANGED <<dag, env, data_types, stack, ri, last, ev>>

\* One iteration of the loop of Lexer::run.
ScanToken ==
    /\ pc = "scan"
    /\ ~Lexer_at_end(front.source, ctl.lx.pos)
    /\ ctl' = [lx |-> scan_token(front.source, ctl.lx)]
    /\ trace' = Append(trace, ctl.lx.pos)
    /\ UNCHANGED <<pc, front, src, result>>
    /\ FrontStatic

\* The loop of Lexer::run ends: the Eof token; Parser::new; the
\* skip_trivia before the loop of parse_file.
ScanEnd ==
    /\ pc = "scan"
    /\ Lexer_at_end(front.source, ctl.lx.pos)
    /\ \E tokens \in {Append(ctl.lx.tokens,
                             Token("Eof", ctl.lx.pos, ctl.lx.pos))} :
           /\ front' = [Ran("lex") EXCEPT !.tokens = tokens,
                                          !.lex_errors = ctl.lx.errors]
           /\ ctl' = [px |-> skip_trivia(Parser_new(front.source, tokens)),
                      stmts |-> <<>>]
    /\ pc' = "stmts"
    /\ trace' = <<>>
    /\ UNCHANGED <<src, result>>
    /\ FrontStatic

\* One iteration of the loop of parse_file.
FileStmt ==
    /\ pc = "stmts"
    /\ ~Parser_at_end(ctl.px)
    /\ \E stmt \in {Parser_self("parse_stmt", ctl.px)} :
           IF stmt.px.panicked
           THEN /\ pc' = "panic"
                /\ result' = Some(Err("Panic",
                                      "byte index is not a char boundary",
                                      None))
                /\ UNCHANGED <<ctl, trace>>
           ELSE /\ ctl' = [px |-> skip_kinds(skip_trivia(stmt.px),
                                             {"Semicolon", "Newline"}),
                           stmts |-> IF IsSome(stmt.v)
                                     THEN Append(ctl.stmts, Unwrap(stmt.v))
                                     ELSE ctl.stmts]
                /\ trace' = Append(trace, ctl.px.pos)
                /\ UNCHANGED <<pc, result>>
    /\ UNCHANGED <<front, src>>
    /\ FrontStatic

\* The loop of parse_file ends: the SourceFile and the errors.
FileEnd ==
    /\ pc = "stmts"
    /\ Parser_at_end(ctl.px)
    /\ src' = ctl.stmts
    /\ front' = [Ran("parse") EXCEPT !.parse_errors = ctl.px.errors]
    /\ pc' = "parsed"
    /\ UNCHANGED <<ctl, trace, result>>
    /\ FrontStatic

FrontNext ==
    \/ ScanToken
    \/ ScanEnd
    \/ FileStmt
    \/ FileEnd

\* WF_vars(FileStmt) written out: FileStmt changes trace or pc, so
\* ENABLED <<FileStmt>>_vars is the condition of the loop of parse_file.
FileStmtFair ==
    \/ []<>(~(pc = "stmts" /\ ~Parser_at_end(ctl.px)))
    \/ []<><<FileStmt>>_vars

\* The loops are sequential code: an iteration that can run does run.
FrontSpec ==
    /\ FrontInit
    /\ [][FrontNext]_vars
    /\ WF_vars(ScanToken \/ ScanEnd \/ FileEnd)
    /\ FileStmtFair

\* The parser at token position i of the token list that was lexed.
ParserAt(i) == [Parser_new(front.source, front.tokens) EXCEPT !.pos = i]

\* An iteration of a loop of the front end leaves the position further on.
FrontProgress ==
    /\ (pc = "scan" /\ pc' = "scan") => ctl'.lx.pos > ctl.lx.pos
    /\ (pc = "stmts" /\ pc' = "stmts") => ctl'.px.pos > ctl.px.pos

\* What the loops inside the parser run once per iteration consumes a
\* token wherever it is started before the Eof token.
ElementsConsume ==
    pc = "stmts" =>
        \A i \in 0..(Len(front.tokens) - 2) :
            /\ Parser_self("parse_stmt", ParserAt(i)).px.pos > i
            /\ Parser_self("parse_expr", ParserAt(i)).px.pos > i
            /\ Parser_self("parse_type", ParserAt(i)).pos > i

\* C30: the front end terminates on every input.  Every iteration of the
\* loop of Lexer::run leaves the position at least one byte further on,
\* also after it rewound over a suffix that is no unit; every iteration of
\* the loop of parse_file leaves the parser at least one token further on,
\* and a statement, an expression and a type started at any token before
\* Eof consume at least one token; so the lexer reaches the end of the
\* source and the parser reaches Eof or is abandoned by a panic.
C30_FrontEndTerminates ==
    /\ [][FrontProgress]_vars
    /\ []ElementsConsume
    /\ <>(pc \in {"parsed", "panic"})

\* `10min` was lexed with a rewind and parsed to its end; a malformed
\* source was parsed to its end with errors.
C30_Witness ==
    /\ pc = "parsed"
    /\ \/ /\ Len(front.tokens) = 3
          /\ front.tokens[1].kind = "IntLit"
          /\ front.tokens[2].kind = "Ident"
          /\ front.tokens[1].end = front.tokens[2].start
       \/ /\ front.parse_errors # <<>>
          /\ Len(front.tokens) >= 4

====
